---------------------------- MODULE Spec2Model ----------------------------
(***************************************************************************)
(* A model of the kand technical-analysis kernels (crate `kand`, modules   *)
(* ta::ohlcv::{sma, wma, rocp, ad, adosc, adr, ha} and ta::stats::correl). *)
(*                                                                         *)
(* Every kernel is a pure function; the state machine is the caller: it    *)
(* picks a build configuration (the cargo features "check", "check-nan"    *)
(* and "allow-nan"), allocates the output buffers, calls one batch kernel  *)
(* and then, after a successful batch call, streams the remaining samples  *)
(* through the incremental kernel.                                         *)
(*                                                                         *)
(* TAFloat is modelled as the extended rationals: a value is a pair        *)
(* <<n, d>>, d >= 1 a reduced fraction n/d, and d = 0 the three special    *)
(* values +inf (<<1,0>>), -inf (<<-1,0>>) and NaN (<<0,0>>).  Arithmetic   *)
(* is exact (no rounding, no overflow, zero is unsigned).                  *)
(* Arrays are sequences: the code's index i is position i + 1.             *)
(***************************************************************************)
EXTENDS Integers, Sequences, FiniteSets, TLC

(***************************************************************************)
(* Bounds of the model.                                                    *)
(***************************************************************************)
MaxLen == 4

(***************************************************************************)
(* TAFloat arithmetic.                                                     *)
(***************************************************************************)
Abs(n) == IF n < 0 THEN -n ELSE n

Sgn(n) == IF n < 0 THEN -1 ELSE IF n > 0 THEN 1 ELSE 0

RECURSIVE GCD(_, _)
GCD(a, b) == IF b = 0 THEN a ELSE GCD(b, a % b)

NaN == <<0, 0>>

PInf == <<1, 0>>

NInf == <<-1, 0>>

\* The fraction n/d in lowest terms with a positive denominator (d # 0).
Q(n, d) ==
    LET s == IF d < 0 THEN -1 ELSE 1
        g == GCD(Abs(n), Abs(d))
    IN  <<(s * n) \div g, (s * d) \div g>>

R(n) == <<n, 1>>

is_nan(x) == x = NaN

IsFinite(x) == x[2] # 0

IsInf(x) == x[2] = 0 /\ x[1] # 0

FSgn(x) == Sgn(x[1])

Neg(x) == <<-x[1], x[2]>>

FAdd(a, b) ==
    IF is_nan(a) \/ is_nan(b) THEN NaN
    ELSE IF IsInf(a) /\ IsInf(b) THEN (IF a = b THEN a ELSE NaN)
    ELSE IF IsInf(a) THEN a
    ELSE IF IsInf(b) THEN b
    ELSE Q(a[1] * b[2] + b[1] * a[2], a[2] * b[2])

FSub(a, b) == FAdd(a, Neg(b))

FMul(a, b) ==
    IF is_nan(a) \/ is_nan(b) THEN NaN
    ELSE IF IsInf(a) \/ IsInf(b)
         THEN (IF FSgn(a) * FSgn(b) = 0 THEN NaN ELSE <<FSgn(a) * FSgn(b), 0>>)
    ELSE Q(a[1] * b[1], a[2] * b[2])

\* IEEE division: x/0 is an infinity of x's sign, 0/0 and inf/inf are NaN.
FDiv(a, b) ==
    IF is_nan(a) \/ is_nan(b) THEN NaN
    ELSE IF IsInf(a) THEN (IF IsInf(b) THEN NaN
                           ELSE <<FSgn(a) * (IF FSgn(b) < 0 THEN -1 ELSE 1), 0>>)
    ELSE IF IsInf(b) THEN R(0)
    ELSE IF b[1] = 0 THEN <<FSgn(a), 0>>
    ELSE Q(a[1] * b[2], a[2] * b[1])

\* a < b on TAFloat: false as soon as one side is NaN.
FLt(a, b) ==
    /\ ~is_nan(a)
    /\ ~is_nan(b)
    /\ a # b
    /\ IF IsInf(a) THEN a = NInf
       ELSE IF IsInf(b) THEN b = PInf
       ELSE a[1] * b[2] < b[1] * a[2]

\* f64::mul_add(a, b, c) = a * b + c, fused (one rounding: exact here).
mul_add(a, b, c) == FAdd(FMul(a, b), c)

\* f64::max / f64::min: a NaN operand is ignored.
FMax(a, b) == IF is_nan(a) THEN b ELSE IF is_nan(b) THEN a ELSE IF FLt(a, b) THEN b ELSE a

FMin(a, b) == IF is_nan(a) THEN b ELSE IF is_nan(b) THEN a ELSE IF FLt(b, a) THEN b ELSE a

\* f64::midpoint(a, b) = (a + b) / 2 without intermediate overflow.
midpoint(a, b) == FAdd(FDiv(a, R(2)), FDiv(b, R(2)))

(***************************************************************************)
(* Slices.                                                                 *)
(***************************************************************************)
At(s, i) == s[i + 1]

\* s with the code's index i set to v.
Put(s, i, v) == [s EXCEPT ![i + 1] = v]

\* The sum of s[lo .. hi-1], accumulated left to right from 0.0.
RECURSIVE SumRange(_, _, _)
SumRange(s, lo, hi) ==
    IF hi <= lo THEN R(0) ELSE FAdd(SumRange(s, lo, hi - 1), At(s, hi - 1))

Reverse(s) == [j \in 1..Len(s) |-> s[Len(s) + 1 - j]]

AnyNaN(s) == \E k \in 1..Len(s) : is_nan(s[k])

\* The elements an `iter().any(is_nan)` scan reads: up to the first NaN.
ScanReads(name, s) ==
    {<<name, k>> : k \in {j \in 0..(Len(s) - 1) : \A m \in 0..(j - 1) : ~is_nan(At(s, m))}}

AllIdx(name, lo, hi) == {<<name, k>> : k \in lo..(hi - 1)}

\* The value a kernel returns: its Result, the output buffers, and the
\* input elements read / output elements written on the way.
Ret(res, out, rd, wr) == [res |-> res, out |-> out, rd |-> rd, wr |-> wr]


(***************************************************************************)
(* State.                                                                  *)
(***************************************************************************)
VARIABLES
    cfg,    \* the build: [check, check_nan, allow_nan], the cargo features
    call,   \* the batch call made: [fn, ins, par], or NoCall
    pre,    \* the caller's output buffers before the call
    ret,    \* what the call returned: Ret(res, out, rd, wr)
    strm    \* the incremental stream fed after the call: [i, st, res, val]

vars == <<cfg, call, pre, ret, strm>>

Configs == [check : BOOLEAN, check_nan : BOOLEAN, allow_nan : BOOLEAN]

NoCall == [fn |-> "none", ins |-> <<>>, par |-> <<>>]

NoStream == [i |-> 0, st |-> <<>>, res |-> "none", val |-> <<>>]

\* The caller's buffer number k of length n: distinct values no kernel computes.
Buf(k, n) == [j \in 1..n |-> R(70 + 10 * k + j)]

\* The sequences over S of length n, and of length at most n.
RECURSIVE SeqsOfLen(_, _)
SeqsOfLen(S, n) ==
    IF n = 0 THEN {<<>>} ELSE {Append(s, x) : s \in SeqsOfLen(S, n - 1), x \in S}

SeqsUpTo(S, n) == UNION {SeqsOfLen(S, k) : k \in 0..n}

\* The inputs a caller passes: every series over the finite samples S, and the
\* series of `plain` samples with one `nan` sample somewhere.
PlainSeq(plain, n) == [j \in 1..n |-> plain]

NaNAt(plain, nan, n, k) == [j \in 1..n |-> IF j = k THEN nan ELSE plain]

DataSeqs(S, plain, nan) ==
    SeqsUpTo(S, MaxLen) \cup {NaNAt(plain, nan, n, k) : n \in 1..MaxLen, k \in 1..MaxLen}

\* The inputs of the calls whose arrays disagree in length.
ShapeSeqs(plain, nan) ==
    {PlainSeq(plain, n) : n \in 0..MaxLen} \cup {NaNAt(plain, nan, n, 1) : n \in 1..MaxLen}

\* One array of a call given another length than the first input's: none,
\* or the array `arr` passed empty or one element longer.
NoDev == [arr |-> "none", how |-> "none"]

Devs(names) == {NoDev} \cup [arr : names, how : {"empty", "longer"}]

Resize(s, dev, name, fill) ==
    IF dev.arr # name THEN s
    ELSE IF dev.how = "empty" THEN <<>> ELSE Append(s, fill)

\* Column c of a series of rows (one row per sample, one column per input array).
Col(rows, c) == [j \in 1..Len(rows) |-> rows[j][c]]

\* The result of a lookback function / of an incremental kernel.
Res(res, v) == [res |-> res, v |-> v]

(***************************************************************************)
(* ohlcv::sma                                                              *)
(***************************************************************************)
sma_lookback(param_period) ==
    IF cfg.check /\ param_period < 2 THEN Res("InvalidParameter", 0)
    ELSE Res("Ok", param_period - 1)

\* The running sum with the outgoing sample never subtracted.
sma_sum_keeps_outgoing(input, param_period, i) == SumRange(input, 0, i + 1)

\* The running sum held when output_sma[i] is written (i >= lookback).
RECURSIVE sma_sum(_, _, _)
sma_sum(input, param_period, i) ==
    IF i = param_period - 1 THEN SumRange(input, 0, param_period)
    ELSE FSub(FAdd(sma_sum(input, param_period, i - 1), At(input, i)),
              At(input, i - param_period))

\* sma with the warm-up elements never filled, whatever the build.
sma_leaves_warmup(input, param_period, output_sma) ==
    LET len == Len(input)
        lb == sma_lookback(param_period)
        lookback == lb.v
        keep == [output_sma |-> output_sma]
    IN  IF lb.res # "Ok" THEN Ret(lb.res, keep, {}, {})
        ELSE IF cfg.check /\ len = 0 THEN Ret("InvalidData", keep, {}, {})
        ELSE IF cfg.check /\ len <= lookback THEN Ret("InsufficientData", keep, {}, {})
        ELSE IF cfg.check /\ Len(output_sma) # len THEN Ret("LengthMismatch", keep, {}, {})
        ELSE IF cfg.check_nan /\ AnyNaN(input)
        THEN Ret("NaNDetected", keep, ScanReads("input", input), {})
        ELSE Ret("Ok",
                 [output_sma |->
                    [j \in 1..Len(output_sma) |->
                        IF j - 1 >= lookback
                        THEN FDiv(sma_sum(input, param_period, j - 1), R(param_period))
                        ELSE output_sma[j]]],
                 AllIdx("input", 0, len),
                 AllIdx("output_sma", lookback, len))

sma(input, param_period, output_sma) ==
    LET len == Len(input)
        lb == sma_lookback(param_period)
        lookback == lb.v
        keep == [output_sma |-> output_sma]
    IN  IF lb.res # "Ok" THEN Ret(lb.res, keep, {}, {})
        ELSE IF cfg.check /\ len = 0 THEN Ret("InvalidData", keep, {}, {})
        ELSE IF cfg.check /\ len <= lookback THEN Ret("InsufficientData", keep, {}, {})
        ELSE IF cfg.check /\ Len(output_sma) # len THEN Ret("LengthMismatch", keep, {}, {})
        ELSE IF cfg.check_nan /\ AnyNaN(input)
        THEN Ret("NaNDetected", keep, ScanReads("input", input), {})
        ELSE Ret("Ok",
                 [output_sma |->
                    [j \in 1..Len(output_sma) |->
                        IF j - 1 >= lookback
                        THEN FDiv(sma_sum(input, param_period, j - 1), R(param_period))
                        ELSE IF cfg.allow_nan THEN NaN ELSE output_sma[j]]],
                 AllIdx("input", 0, len),
                 AllIdx("output_sma", IF cfg.allow_nan THEN 0 ELSE lookback, len))

\* sma_inc with the division by the period forgotten.
sma_inc_undivided(prev_sma, input_new_price, input_old_price, param_period) ==
    IF cfg.check /\ param_period < 2 THEN Res("InvalidParameter", <<>>)
    ELSE IF cfg.check_nan
            /\ (is_nan(prev_sma) \/ is_nan(input_new_price) \/ is_nan(input_old_price))
    THEN Res("NaNDetected", <<>>)
    ELSE Res("Ok", <<FAdd(prev_sma, FSub(input_new_price, input_old_price))>>)

sma_inc(prev_sma, input_new_price, input_old_price, param_period) ==
    IF cfg.check /\ param_period < 2 THEN Res("InvalidParameter", <<>>)
    ELSE IF cfg.check_nan
            /\ (is_nan(prev_sma) \/ is_nan(input_new_price) \/ is_nan(input_old_price))
    THEN Res("NaNDetected", <<>>)
    ELSE Res("Ok", <<FAdd(prev_sma,
                          FDiv(FSub(input_new_price, input_old_price), R(param_period)))>>)

SmaVals == {R(0), R(1), R(3)}

\* A series that is +infinity everywhere.
SmaExamples == {<<PInf, PInf, PInf>>}

\* What a caller of a build without the "check" feature must guarantee.
SmaContract(input, param_period, output_sma) ==
    /\ param_period >= 2
    /\ Len(input) >= param_period
    /\ Len(output_sma) = Len(input)

CallSma ==
    /\ call = NoCall
    /\ \E input \in DataSeqs(SmaVals, R(1), NaN) \cup SmaExamples,
          param_period \in 0..MaxLen,
          dev \in Devs({"output_sma"}) :
          LET output_sma == Resize(Buf(0, Len(input)), dev, "output_sma", R(70))
              r == sma(input, param_period, output_sma)
          IN  /\ dev = NoDev \/ input \in ShapeSeqs(R(1), NaN)
              /\ cfg.check \/ SmaContract(input, param_period, output_sma)
              /\ call' = [fn |-> "sma", ins |-> [input |-> input],
                          par |-> <<param_period>>]
              /\ pre' = [output_sma |-> output_sma]
              /\ ret' = r
              /\ strm' = IF r.res = "Ok"
                         THEN [i |-> param_period - 1,
                               st |-> <<At(r.out.output_sma, param_period - 1)>>,
                               res |-> "seed", val |-> <<>>]
                         ELSE NoStream
    /\ UNCHANGED cfg

\* The next sample of the series goes through sma_inc, fed the previous result.
SmaIncStep ==
    /\ call.fn = "sma"
    /\ strm.res \in {"seed", "Ok"}
    /\ strm.i + 1 < Len(call.ins.input)
    /\ LET i == strm.i + 1
           p == call.par[1]
           r == sma_inc(strm.st[1], At(call.ins.input, i), At(call.ins.input, i - p), p)
       IN  strm' = [i |-> i, st |-> r.v, res |-> r.res, val |-> r.v]
    /\ UNCHANGED <<cfg, call, pre, ret>>

(***************************************************************************)
(* stats::correl                                                           *)
(***************************************************************************)
correl_lookback(param_period) ==
    IF cfg.check /\ param_period < 2 THEN Res("InvalidParameter", 0)
    ELSE Res("Ok", param_period - 1)

\* s * sqrt(n / d) for a sign s and a reduced fraction n/d: the quotient
\* a / sqrt(x) of finite a and finite x > 0, kept exact.
SqrtVal(s, q) == <<s, q[1], q[2]>>

\* a / x.sqrt()
DivBySqrt(a, x) ==
    IF IsFinite(a) /\ IsFinite(x) /\ FLt(R(0), x)
    THEN SqrtVal(FSgn(a), FDiv(FMul(a, a), x))
    ELSE FDiv(a, IF FLt(x, R(0)) THEN NaN ELSE x)

\* `denominator > 0.0` for denominator = x.sqrt(): false for x <= 0 and NaN.
SqrtPositive(x) == FLt(R(0), x)

\* The Pearson formula normalised by the variance of series 0 alone.
pearson_single_denominator(n, sum_0, sum_1, sum_0_sq, sum_1_sq, sum_01) ==
    LET numerator == mul_add(n, sum_01, Neg(FMul(sum_0, sum_1)))
        denominator_0 == mul_add(n, sum_0_sq, Neg(FMul(sum_0, sum_0)))
        radicand == FMul(denominator_0, denominator_0)
    IN  IF SqrtPositive(radicand) THEN DivBySqrt(numerator, radicand) ELSE NaN

\* The Pearson formula on the five sums of a window of n samples.
pearson(n, sum_0, sum_1, sum_0_sq, sum_1_sq, sum_01) ==
    LET numerator == mul_add(n, sum_01, Neg(FMul(sum_0, sum_1)))
        denominator_0 == mul_add(n, sum_0_sq, Neg(FMul(sum_0, sum_0)))
        denominator_1 == mul_add(n, sum_1_sq, Neg(FMul(sum_1, sum_1)))
        radicand == FMul(denominator_0, denominator_1)
    IN  IF SqrtPositive(radicand) THEN DivBySqrt(numerator, radicand) ELSE NaN

\* correl_init with the products of the pairs replaced by the squares of series 0.
RECURSIVE correl_init_squares_for_products(_, _, _)
correl_init_squares_for_products(input_0, input_1, k) ==
    IF k = 0 THEN <<R(0), R(0), R(0), R(0), R(0)>>
    ELSE LET s == correl_init_squares_for_products(input_0, input_1, k - 1)
             val_0 == At(input_0, k - 1)
             val_1 == At(input_1, k - 1)
         IN  <<FAdd(s[1], val_0), FAdd(s[2], val_1),
               FAdd(s[3], FMul(val_0, val_0)), FAdd(s[4], FMul(val_1, val_1)),
               FAdd(s[5], FMul(val_0, val_0))>>

\* The sums <<sum_0, sum_1, sum_0_sq, sum_1_sq, sum_01>> after the first k
\* samples of the initial window.
RECURSIVE correl_init(_, _, _)
correl_init(input_0, input_1, k) ==
    IF k = 0 THEN <<R(0), R(0), R(0), R(0), R(0)>>
    ELSE LET s == correl_init(input_0, input_1, k - 1)
             val_0 == At(input_0, k - 1)
             val_1 == At(input_1, k - 1)
         IN  <<FAdd(s[1], val_0), FAdd(s[2], val_1),
               FAdd(s[3], FMul(val_0, val_0)), FAdd(s[4], FMul(val_1, val_1)),
               FAdd(s[5], FMul(val_0, val_1))>>

\* correl_slide with the squares of series 0 updated by the samples themselves.
correl_slide_unsquared(s, old_0, old_1, new_0, new_1) ==
    <<FAdd(FSub(s[1], old_0), new_0),
      FAdd(FSub(s[2], old_1), new_1),
      FAdd(FSub(s[3], old_0), new_0),
      mul_add(new_1, new_1, mul_add(old_1, Neg(old_1), s[4])),
      mul_add(new_0, new_1, mul_add(old_0, Neg(old_1), s[5]))>>

\* The sums after the window has moved by one sample.
correl_slide(s, old_0, old_1, new_0, new_1) ==
    <<FAdd(FSub(s[1], old_0), new_0),
      FAdd(FSub(s[2], old_1), new_1),
      mul_add(new_0, new_0, mul_add(old_0, Neg(old_0), s[3])),
      mul_add(new_1, new_1, mul_add(old_1, Neg(old_1), s[4])),
      mul_add(new_0, new_1, mul_add(old_0, Neg(old_1), s[5]))>>

\* The sums the batch kernel holds at each of the indices lookback .. i, in order.
RECURSIVE correl_run(_, _, _, _)
correl_run(input_0, input_1, param_period, i) ==
    IF i = param_period - 1 THEN <<correl_init(input_0, input_1, param_period)>>
    ELSE LET t == correl_run(input_0, input_1, param_period, i - 1)
         IN  Append(t, correl_slide(t[Len(t)], At(input_0, i - param_period),
                                    At(input_1, i - param_period),
                                    At(input_0, i), At(input_1, i)))

CorrelOutputs ==
    <<"output_correl", "output_sum_0", "output_sum_1", "output_sum_0_sq",
      "output_sum_1_sq", "output_sum_01">>

\* The elements the NaN scan `input_0[i].is_nan() || input_1[i].is_nan()` reads.
PairScanReads(input_0, input_1) ==
    LET clean(m) == ~is_nan(At(input_0, m)) /\ ~is_nan(At(input_1, m))
        rows == {j \in 0..(Len(input_0) - 1) : \A m \in 0..(j - 1) : clean(m)}
    IN  {<<"input_0", j>> : j \in rows}
        \cup {<<"input_1", j>> : j \in {k \in rows : ~is_nan(At(input_0, k))}}

correl(input_0, input_1, param_period, outs) ==
    LET len == Len(input_0)
        lb == correl_lookback(param_period)
        lookback == lb.v
        n == R(param_period)
        run == correl_run(input_0, input_1, param_period, len - 1)
        value(k, i) ==
            LET t == run[i - lookback + 1]
            IN  IF k = 1 THEN pearson(n, t[1], t[2], t[3], t[4], t[5]) ELSE t[k - 1]
    IN  IF lb.res # "Ok" THEN Ret(lb.res, outs, {}, {})
        ELSE IF cfg.check /\ len = 0 THEN Ret("InvalidData", outs, {}, {})
        ELSE IF cfg.check /\ len <= lookback THEN Ret("InsufficientData", outs, {}, {})
        ELSE IF cfg.check
                /\ (len # Len(input_1) \/ \E k \in 1..6 : len # Len(outs[CorrelOutputs[k]]))
        THEN Ret("LengthMismatch", outs, {}, {})
        ELSE IF cfg.check /\ param_period < 2 THEN Ret("InvalidParameter", outs, {}, {})
        ELSE IF cfg.check_nan /\ (AnyNaN(input_0) \/ AnyNaN(input_1))
        THEN Ret("NaNDetected", outs, PairScanReads(input_0, input_1), {})
        ELSE Ret("Ok",
                 [name \in DOMAIN outs |->
                    LET k == CHOOSE k \in 1..6 : CorrelOutputs[k] = name
                    IN  [j \in 1..Len(outs[name]) |->
                            IF j - 1 >= lookback THEN value(k, j - 1) ELSE NaN]],
                 AllIdx("input_0", 0, len) \cup AllIdx("input_1", 0, len),
                 UNION {AllIdx(CorrelOutputs[k], 0, len) : k \in 1..6})

\* correl_inc with the outgoing cross product left in the running sum.
correl_inc_keeps_old_product(input_new_0, input_new_1, input_old_0, input_old_1, prev_sum_0, prev_sum_1, prev_sum_0_sq, prev_sum_1_sq, prev_sum_01, param_period) ==
    LET new_sum_0 == FAdd(FSub(prev_sum_0, input_old_0), input_new_0)
        new_sum_1 == FAdd(FSub(prev_sum_1, input_old_1), input_new_1)
        new_sum_0_sq == mul_add(input_new_0, input_new_0,
                                mul_add(input_old_0, Neg(input_old_0), prev_sum_0_sq))
        new_sum_1_sq == mul_add(input_new_1, input_new_1,
                                mul_add(input_old_1, Neg(input_old_1), prev_sum_1_sq))
        new_sum_01 == mul_add(input_new_0, input_new_1, prev_sum_01)
    IN  Res("Ok", <<pearson(R(param_period), new_sum_0, new_sum_1, new_sum_0_sq,
                            new_sum_1_sq, new_sum_01),
                    new_sum_0, new_sum_1, new_sum_0_sq, new_sum_1_sq, new_sum_01>>)

correl_inc(input_new_0, input_new_1, input_old_0, input_old_1, prev_sum_0, prev_sum_1, prev_sum_0_sq, prev_sum_1_sq, prev_sum_01, param_period) ==
    IF cfg.check /\ param_period < 2 THEN Res("InvalidParameter", <<>>)
    ELSE IF cfg.check_nan
            /\ \E x \in {input_new_0, input_new_1, input_old_0, input_old_1, prev_sum_0,
                         prev_sum_1, prev_sum_0_sq, prev_sum_1_sq, prev_sum_01} : is_nan(x)
    THEN Res("NaNDetected", <<>>)
    ELSE LET new_sum_0 == FAdd(FSub(prev_sum_0, input_old_0), input_new_0)
             new_sum_1 == FAdd(FSub(prev_sum_1, input_old_1), input_new_1)
             new_sum_0_sq == mul_add(input_new_0, input_new_0,
                                     mul_add(input_old_0, Neg(input_old_0), prev_sum_0_sq))
             new_sum_1_sq == mul_add(input_new_1, input_new_1,
                                     mul_add(input_old_1, Neg(input_old_1), prev_sum_1_sq))
             new_sum_01 == mul_add(input_new_0, input_new_1,
                                   mul_add(input_old_0, Neg(input_old_1), prev_sum_01))
             n == R(param_period)
         IN  Res("Ok", <<pearson(n, new_sum_0, new_sum_1, new_sum_0_sq, new_sum_1_sq,
                                 new_sum_01),
                         new_sum_0, new_sum_1, new_sum_0_sq, new_sum_1_sq, new_sum_01>>)

\* The sample pairs <<x, y>> fed to correl.
CorrelRows == {<<R(1), R(2)>>, <<R(2), R(1)>>, <<R(3), R(3)>>}

CorrelPlain == <<R(1), R(2)>>

CorrelNaN == <<R(1), NaN>>

\* The series of pairs <<x[j], y[j]>>.
Zip(x, y) == [j \in 1..Len(x) |-> <<R(x[j]), R(y[j])>>]

\* The series of the tests: y = 2x, y = -x + 10, and an x without variance.
CorrelPositive == Zip(<<1, 2, 3, 4, 5>>, <<2, 4, 6, 8, 10>>)

CorrelNegative == Zip(<<1, 2, 3, 4, 5>>, <<9, 8, 7, 6, 5>>)

CorrelNoVariance == Zip(<<5, 5, 5, 5, 5>>, <<1, 2, 3, 4, 5>>)

CorrelExamples == {CorrelPositive, CorrelNegative, CorrelNoVariance}

\* The caller's six output buffers, in the order of CorrelOutputs.
CorrelBufs(len, dev) ==
    [name \in {CorrelOutputs[k] : k \in 1..6} |->
        LET k == CHOOSE k \in 1..6 : CorrelOutputs[k] = name
        IN  Resize(Buf(k, len), dev, name, R(70))]

CorrelContract(input_0, input_1, param_period, outs) ==
    /\ param_period >= 2
    /\ Len(input_0) >= param_period
    /\ Len(input_1) = Len(input_0)
    /\ \A k \in 1..6 : Len(outs[CorrelOutputs[k]]) = Len(input_0)

\* The five sums the batch kernel stored at index i.
StoredSums(out, i) ==
    <<At(out.output_sum_0, i), At(out.output_sum_1, i), At(out.output_sum_0_sq, i),
      At(out.output_sum_1_sq, i), At(out.output_sum_01, i)>>

CallCorrel ==
    /\ call = NoCall
    /\ \E rows \in DataSeqs(CorrelRows, CorrelPlain, CorrelNaN) \cup CorrelExamples,
          param_period \in 0..MaxLen,
          dev \in Devs({"input_1"} \cup {CorrelOutputs[k] : k \in 1..6}) :
          LET input_0 == Col(rows, 1)
              input_1 == Resize(Col(rows, 2), dev, "input_1", R(1))
              outs == CorrelBufs(Len(rows), dev)
              r == correl(input_0, input_1, param_period, outs)
          IN  /\ dev = NoDev \/ rows \in ShapeSeqs(CorrelPlain, CorrelNaN)
              /\ cfg.check \/ CorrelContract(input_0, input_1, param_period, outs)
              /\ call' = [fn |-> "correl",
                          ins |-> [input_0 |-> input_0, input_1 |-> input_1],
                          par |-> <<param_period>>]
              /\ pre' = outs
              /\ ret' = r
              /\ strm' = IF r.res = "Ok"
                         THEN [i |-> param_period - 1,
                               st |-> StoredSums(r.out, param_period - 1),
                               res |-> "seed", val |-> <<>>]
                         ELSE NoStream
    /\ UNCHANGED cfg

\* correl_inc on sample i, given the sums the batch kernel stored at i - 1.
CorrelIncStep ==
    /\ call.fn = "correl"
    /\ strm.res \in {"seed", "Ok"}
    /\ strm.i + 1 < Len(call.ins.input_0)
    /\ LET i == strm.i + 1
           p == call.par[1]
           st == StoredSums(ret.out, i - 1)
           r == correl_inc(At(call.ins.input_0, i), At(call.ins.input_1, i),
                           At(call.ins.input_0, i - p), At(call.ins.input_1, i - p),
                           st[1], st[2], st[3], st[4], st[5], p)
       IN  strm' = [i |-> i, st |-> st, res |-> r.res, val |-> r.v]
    /\ UNCHANGED <<cfg, call, pre, ret>>

(***************************************************************************)
(* ohlcv::ad                                                               *)
(***************************************************************************)
ad_lookback == Res("Ok", 0)

\* The multiplier with the guard on a zero range removed.
mfm_of_unguarded(high, low, close) ==
    FDiv(FSub(FSub(close, low), FSub(high, close)), FSub(high, low))

\* The money flow multiplier of one sample, as ad_raw and ad_inc_raw compute it.
mfm_of(high, low, close) ==
    LET high_low_diff == FSub(high, low)
    IN  IF high_low_diff = R(0) THEN R(0)
        ELSE FDiv(FSub(FSub(close, low), FSub(high, close)), high_low_diff)

\* The accumulator `ad` of ad_raw after sample i (0.0 before sample `lookback`).
RECURSIVE ad_acc(_, _, _, _, _, _)
ad_acc(input_high, input_low, input_close, input_volume, lookback, i) ==
    IF i < lookback THEN R(0)
    ELSE mul_add(mfm_of(At(input_high, i), At(input_low, i), At(input_close, i)),
                 At(input_volume, i),
                 ad_acc(input_high, input_low, input_close, input_volume, lookback, i - 1))

\* ad_raw writing each sample's money flow volume without carrying the line over.
ad_raw_no_carry(input_high, input_low, input_close, input_volume, output_ad, lookback) ==
    [j \in 1..Len(output_ad) |->
        IF j - 1 >= lookback /\ j - 1 < Len(input_high)
        THEN mul_add(mfm_of(input_high[j], input_low[j], input_close[j]),
                     input_volume[j], R(0))
        ELSE output_ad[j]]

\* ad_raw: the output buffer after the loop.
ad_raw(input_high, input_low, input_close, input_volume, output_ad, lookback) ==
    [j \in 1..Len(output_ad) |->
        IF j - 1 >= lookback /\ j - 1 < Len(input_high)
        THEN ad_acc(input_high, input_low, input_close, input_volume, lookback, j - 1)
        ELSE output_ad[j]]

\* The elements a row-wise scan `a[i].is_nan() || b[i].is_nan() || ...` over the
\* arrays named by `names` (in this order) reads, for i = lo .. len-1.
RowScanReads(names, arrays, lo, len) ==
    LET cleanRow(m) == \A c \in 1..Len(names) : ~is_nan(At(arrays[c], m))
        rows == {j \in lo..(len - 1) : \A m \in lo..(j - 1) : cleanRow(m)}
    IN  UNION {{<<names[c], j>> : j \in {k \in rows :
                    \A b \in 1..(c - 1) : ~is_nan(At(arrays[b], k))}} : c \in 1..Len(names)}

RowsHaveNaN(arrays, lo, len) ==
    \E j \in lo..(len - 1) : \E c \in 1..Len(arrays) : is_nan(At(arrays[c], j))

HlcvNames == <<"input_high", "input_low", "input_close", "input_volume">>

ad(input_high, input_low, input_close, input_volume, output_ad) ==
    LET len == Len(input_high)
        lookback == ad_lookback.v
        keep == [output_ad |-> output_ad]
        arrays == <<input_high, input_low, input_close, input_volume>>
    IN  IF cfg.check /\ len = 0 THEN Ret("InvalidData", keep, {}, {})
        ELSE IF cfg.check
                /\ (len # Len(input_low) \/ len # Len(input_close)
                    \/ len # Len(input_volume) \/ len # Len(output_ad))
        THEN Ret("LengthMismatch", keep, {}, {})
        ELSE IF cfg.check_nan /\ RowsHaveNaN(arrays, lookback, len)
        THEN Ret("NaNDetected", keep, RowScanReads(HlcvNames, arrays, lookback, len), {})
        ELSE Ret("Ok",
                 [output_ad |-> ad_raw(input_high, input_low, input_close, input_volume,
                                       output_ad, lookback)],
                 UNION {AllIdx(HlcvNames[c], lookback, len) : c \in 1..4},
                 AllIdx("output_ad", lookback, len))

\* ad_inc_raw with the multiplier's numerator taken as close - low only.
ad_inc_raw_half_numerator(input_high, input_low, input_close, input_volume, prev_ad) ==
    LET high_low_diff == FSub(input_high, input_low)
        mfm == IF high_low_diff = R(0) THEN R(0)
               ELSE FDiv(FSub(input_close, input_low), high_low_diff)
    IN  mul_add(mfm, input_volume, prev_ad)

ad_inc_raw(input_high, input_low, input_close, input_volume, prev_ad) ==
    LET high_low_diff == FSub(input_high, input_low)
        mfm == IF high_low_diff = R(0) THEN R(0)
               ELSE FDiv(FSub(FSub(input_close, input_low), FSub(input_high, input_close)),
                         high_low_diff)
    IN  mul_add(mfm, input_volume, prev_ad)

ad_inc(input_high, input_low, input_close, input_volume, prev_ad) ==
    IF cfg.check_nan
       /\ \E x \in {input_high, input_low, input_close, input_volume, prev_ad} : is_nan(x)
    THEN Res("NaNDetected", <<>>)
    ELSE Res("Ok", <<ad_inc_raw(input_high, input_low, input_close, input_volume, prev_ad)>>)

\* The samples <<high, low, close, volume>> fed to ad and adosc: multipliers
\* 1 and -1/2, and a sample of zero range.
AdRows == {<<R(3), R(1), R(3), R(10)>>, <<R(4), R(0), R(1), R(2)>>, <<R(2), R(2), R(2), R(5)>>}

AdPlain == <<R(3), R(1), R(3), R(10)>>

AdNaN == <<R(3), R(1), NaN, R(10)>>

\* The series of the example in ad's documentation: high = [10, 12, 15],
\* low = [8, 9, 11], close = [9, 11, 13], volume = [100, 150, 200].
AdDocExample ==
    <<<<R(10), R(8), R(9), R(100)>>, <<R(12), R(9), R(11), R(150)>>,
      <<R(15), R(11), R(13), R(200)>>>>

\* Series with samples of zero range (high = low) whose close lies on, above and
\* below the range, or is NaN, at the first sample and at later ones.
AdFlatExamples ==
    {<<<<R(2), R(2), R(3), R(7)>>, <<R(4), R(0), R(1), R(2)>>, <<R(5), R(5), R(1), R(4)>>>>,
     <<<<R(3), R(1), R(3), R(10)>>, <<R(2), R(2), NaN, R(7)>>, <<R(4), R(0), R(1), R(2)>>>>,
     <<<<R(3), R(1), R(3), R(10)>>, <<R(4), R(0), R(1), R(2)>>, <<R(2), R(2), R(3), R(7)>>,
       <<R(5), R(5), R(1), R(4)>>>>}

AdContract(ins, output_ad) ==
    /\ Len(ins.input_high) >= 1
    /\ \A c \in 2..4 : Len(ins[HlcvNames[c]]) = Len(ins.input_high)
    /\ Len(output_ad) = Len(ins.input_high)

\* The four input arrays of a call, one of them possibly of another length.
HlcvIns(rows, dev) ==
    [name \in {HlcvNames[c] : c \in 1..4} |->
        LET c == CHOOSE c \in 1..4 : HlcvNames[c] = name
        IN  Resize(Col(rows, c), dev, name, R(1))]

CallAd ==
    /\ call = NoCall
    /\ \E rows \in DataSeqs(AdRows, AdPlain, AdNaN) \cup {AdDocExample} \cup AdFlatExamples,
          dev \in Devs({"input_low", "input_close", "input_volume", "output_ad"}) :
          LET ins == HlcvIns(rows, dev)
              output_ad == Resize(Buf(0, Len(rows)), dev, "output_ad", R(70))
              r == ad(ins.input_high, ins.input_low, ins.input_close, ins.input_volume,
                      output_ad)
          IN  /\ dev = NoDev \/ rows \in ShapeSeqs(AdPlain, AdNaN)
              /\ cfg.check \/ AdContract(ins, output_ad)
              /\ call' = [fn |-> "ad", ins |-> ins, par |-> <<>>]
              /\ pre' = [output_ad |-> output_ad]
              /\ ret' = r
              /\ strm' = IF r.res = "Ok"
                         THEN [i |-> 0, st |-> <<At(r.out.output_ad, 0)>>,
                               res |-> "seed", val |-> <<>>]
                         ELSE NoStream
    /\ UNCHANGED cfg

\* ad_inc on sample i, given the A/D value the batch kernel wrote at i - 1.
AdIncStep ==
    /\ call.fn = "ad"
    /\ strm.res \in {"seed", "Ok"}
    /\ strm.i + 1 < Len(call.ins.input_high)
    /\ LET i == strm.i + 1
           st == <<At(ret.out.output_ad, i - 1)>>
           r == ad_inc(At(call.ins.input_high, i), At(call.ins.input_low, i),
                       At(call.ins.input_close, i), At(call.ins.input_volume, i), st[1])
       IN  strm' = [i |-> i, st |-> st, res |-> r.res, val |-> r.v]
    /\ UNCHANGED <<cfg, call, pre, ret>>

(***************************************************************************)
(* ohlcv::ema: the exponential average adosc is built from.  Its lookback *)
(* is period - 1, its first value the mean of the first window, and each   *)
(* later value prev + k * (x - prev) with k = 2 / (period + 1).            *)
(***************************************************************************)
ema_lookback(param_period) ==
    IF cfg.check /\ param_period < 2 THEN Res("InvalidParameter", 0)
    ELSE Res("Ok", param_period - 1)

ema_k(param_period) == FDiv(R(2), R(param_period + 1))

ema_inc(input, prev_ema, param_period) ==
    IF cfg.check /\ param_period < 2 THEN Res("InvalidParameter", <<>>)
    ELSE IF cfg.check_nan /\ (is_nan(input) \/ is_nan(prev_ema)) THEN Res("NaNDetected", <<>>)
    ELSE Res("Ok", <<mul_add(FSub(input, prev_ema), ema_k(param_period), prev_ema)>>)

\* The average the batch kernel writes at index i (i >= lookback).
RECURSIVE ema_at(_, _, _)
ema_at(input, param_period, i) ==
    IF i = param_period - 1 THEN FDiv(SumRange(input, 0, param_period), R(param_period))
    ELSE LET prev == ema_at(input, param_period, i - 1)
         IN  mul_add(FSub(At(input, i), prev), ema_k(param_period), prev)

ema(input, param_period, output_ema) ==
    LET len == Len(input)
        lb == ema_lookback(param_period)
        lookback == lb.v
        keep == [output_ema |-> output_ema]
    IN  IF lb.res # "Ok" THEN Ret(lb.res, keep, {}, {})
        ELSE IF cfg.check /\ len = 0 THEN Ret("InvalidData", keep, {}, {})
        ELSE IF cfg.check /\ len <= lookback THEN Ret("InsufficientData", keep, {}, {})
        ELSE IF cfg.check /\ Len(output_ema) # len THEN Ret("LengthMismatch", keep, {}, {})
        ELSE IF cfg.check_nan /\ AnyNaN(input)
        THEN Ret("NaNDetected", keep, ScanReads("input", input), {})
        ELSE Ret("Ok",
                 [output_ema |->
                    [j \in 1..Len(output_ema) |->
                        IF j - 1 >= lookback THEN ema_at(input, param_period, j - 1)
                        ELSE IF cfg.allow_nan THEN NaN ELSE output_ema[j]]],
                 AllIdx("input", 0, len),
                 AllIdx("output_ema", IF cfg.allow_nan THEN 0 ELSE lookback, len))

(***************************************************************************)
(* ohlcv::adosc                                                            *)
(***************************************************************************)
\* adosc::lookback accepting equal periods.
adosc_lookback_accepts_equal(param_fast_period, param_slow_period) ==
    IF cfg.check /\ (param_fast_period < 2 \/ param_slow_period < 2
                     \/ param_fast_period > param_slow_period)
    THEN Res("InvalidParameter", 0)
    ELSE ema_lookback(param_slow_period)

adosc_lookback(param_fast_period, param_slow_period) ==
    IF cfg.check /\ (param_fast_period < 2 \/ param_slow_period < 2
                     \/ param_fast_period >= param_slow_period)
    THEN Res("InvalidParameter", 0)
    ELSE ema_lookback(param_slow_period)

AdoscOutputs == <<"output_adosc", "output_ad", "output_ad_fast_ema", "output_ad_slow_ema">>

\* The written elements of a sub-kernel's output, under the name of the buffer
\* adosc passed for it.
Renamed(wr, name) == {<<name, e[2]>> : e \in wr}

\* adosc writing the oscillator from the fast average's lookback on.
adosc_frame_of_fast(input_high, input_low, input_close, input_volume, param_fast_period, param_slow_period, outs) ==
    LET len == Len(input_high)
        lb == adosc_lookback(param_fast_period, param_slow_period)
        lookback == lb.v
        arrays == <<input_high, input_low, input_close, input_volume>>
        a == ad(input_high, input_low, input_close, input_volume, outs.output_ad)
        outs1 == [outs EXCEPT !.output_ad = a.out.output_ad]
        f == ema(a.out.output_ad, param_fast_period, outs.output_ad_fast_ema)
        outs2 == [outs1 EXCEPT !.output_ad_fast_ema = f.out.output_ema]
        wr2 == a.wr \cup Renamed(f.wr, "output_ad_fast_ema")
        w == ema(a.out.output_ad, param_slow_period, outs.output_ad_slow_ema)
        outs3 == [outs2 EXCEPT !.output_ad_slow_ema = w.out.output_ema]
        wr3 == wr2 \cup Renamed(w.wr, "output_ad_slow_ema")
    IN  IF lb.res # "Ok" THEN Ret(lb.res, outs, {}, {})
        ELSE IF cfg.check /\ len = 0 THEN Ret("InvalidData", outs, {}, {})
        ELSE IF cfg.check /\ len <= lookback THEN Ret("InsufficientData", outs, {}, {})
        ELSE IF cfg.check
                /\ (len # Len(input_low) \/ len # Len(input_close)
                    \/ len # Len(input_volume)
                    \/ \E k \in 1..4 : len # Len(outs[AdoscOutputs[k]]))
        THEN Ret("LengthMismatch", outs, {}, {})
        ELSE IF cfg.check_nan /\ RowsHaveNaN(arrays, 0, len)
        THEN Ret("NaNDetected", outs, RowScanReads(HlcvNames, arrays, 0, len), {})
        ELSE IF a.res # "Ok" THEN Ret(a.res, outs1, a.rd, a.wr)
        ELSE IF f.res # "Ok" THEN Ret(f.res, outs2, a.rd, wr2)
        ELSE IF w.res # "Ok" THEN Ret(w.res, outs3, a.rd, wr3)
        ELSE Ret("Ok",
                 [outs3 EXCEPT !.output_adosc =
                    [j \in 1..Len(outs.output_adosc) |->
                        IF j - 1 >= param_fast_period - 1 /\ j - 1 < len
                        THEN FSub(At(outs3.output_ad_fast_ema, j - 1),
                                  At(outs3.output_ad_slow_ema, j - 1))
                        ELSE outs.output_adosc[j]]],
                 a.rd,
                 wr3 \cup AllIdx("output_adosc", param_fast_period - 1, len))

adosc(input_high, input_low, input_close, input_volume, param_fast_period, param_slow_period, outs) ==
    LET len == Len(input_high)
        lb == adosc_lookback(param_fast_period, param_slow_period)
        lookback == lb.v
        arrays == <<input_high, input_low, input_close, input_volume>>
        a == ad(input_high, input_low, input_close, input_volume, outs.output_ad)
        outs1 == [outs EXCEPT !.output_ad = a.out.output_ad]
        f == ema(a.out.output_ad, param_fast_period, outs.output_ad_fast_ema)
        outs2 == [outs1 EXCEPT !.output_ad_fast_ema = f.out.output_ema]
        wr2 == a.wr \cup Renamed(f.wr, "output_ad_fast_ema")
        w == ema(a.out.output_ad, param_slow_period, outs.output_ad_slow_ema)
        outs3 == [outs2 EXCEPT !.output_ad_slow_ema = w.out.output_ema]
        wr3 == wr2 \cup Renamed(w.wr, "output_ad_slow_ema")
    IN  IF lb.res # "Ok" THEN Ret(lb.res, outs, {}, {})
        ELSE IF cfg.check /\ len = 0 THEN Ret("InvalidData", outs, {}, {})
        ELSE IF cfg.check /\ len <= lookback THEN Ret("InsufficientData", outs, {}, {})
        ELSE IF cfg.check
                /\ (len # Len(input_low) \/ len # Len(input_close)
                    \/ len # Len(input_volume)
                    \/ \E k \in 1..4 : len # Len(outs[AdoscOutputs[k]]))
        THEN Ret("LengthMismatch", outs, {}, {})
        ELSE IF cfg.check_nan /\ RowsHaveNaN(arrays, 0, len)
        THEN Ret("NaNDetected", outs, RowScanReads(HlcvNames, arrays, 0, len), {})
        ELSE IF a.res # "Ok" THEN Ret(a.res, outs1, a.rd, a.wr)
        ELSE IF f.res # "Ok" THEN Ret(f.res, outs2, a.rd, wr2)
        ELSE IF w.res # "Ok" THEN Ret(w.res, outs3, a.rd, wr3)
        ELSE Ret("Ok",
                 [outs3 EXCEPT !.output_adosc =
                    [j \in 1..Len(outs.output_adosc) |->
                        IF j - 1 >= lookback /\ j - 1 < len
                        THEN FSub(At(outs3.output_ad_fast_ema, j - 1),
                                  At(outs3.output_ad_slow_ema, j - 1))
                        ELSE outs.output_adosc[j]]],
                 a.rd,
                 wr3 \cup AllIdx("output_adosc", lookback, len))

\* adosc_inc returning slow EMA - fast EMA as the oscillator.
adosc_inc_swapped(input_high, input_low, input_close, input_volume, prev_ad, prev_ad_fast_ema, prev_ad_slow_ema, param_fast_period, param_slow_period) ==
    LET a == ad_inc(input_high, input_low, input_close, input_volume, prev_ad)
        f == ema_inc(a.v[1], prev_ad_fast_ema, param_fast_period)
        w == ema_inc(a.v[1], prev_ad_slow_ema, param_slow_period)
    IN  IF a.res # "Ok" THEN a
        ELSE IF f.res # "Ok" THEN f
        ELSE IF w.res # "Ok" THEN w
        ELSE Res("Ok", <<FSub(w.v[1], f.v[1]), a.v[1], f.v[1], w.v[1]>>)

adosc_inc(input_high, input_low, input_close, input_volume, prev_ad, prev_ad_fast_ema, prev_ad_slow_ema, param_fast_period, param_slow_period) ==
    LET a == ad_inc(input_high, input_low, input_close, input_volume, prev_ad)
        output_ad == a.v[1]
        f == ema_inc(output_ad, prev_ad_fast_ema, param_fast_period)
        w == ema_inc(output_ad, prev_ad_slow_ema, param_slow_period)
    IN  IF cfg.check /\ (param_fast_period = 0 \/ param_slow_period = 0
                         \/ param_fast_period >= param_slow_period)
        THEN Res("InvalidParameter", <<>>)
        ELSE IF cfg.check_nan
                /\ \E x \in {input_high, input_low, input_close, input_volume, prev_ad,
                             prev_ad_fast_ema, prev_ad_slow_ema} : is_nan(x)
        THEN Res("NaNDetected", <<>>)
        ELSE IF a.res # "Ok" THEN a
        ELSE IF f.res # "Ok" THEN f
        ELSE IF w.res # "Ok" THEN w
        ELSE Res("Ok", <<FSub(f.v[1], w.v[1]), output_ad, f.v[1], w.v[1]>>)

AdoscBufs(len, dev) ==
    [name \in {AdoscOutputs[k] : k \in 1..4} |->
        LET k == CHOOSE k \in 1..4 : AdoscOutputs[k] = name
        IN  Resize(Buf(k, len), dev, name, R(70))]

AdoscContract(ins, param_fast_period, param_slow_period, outs) ==
    /\ param_fast_period >= 2
    /\ param_fast_period < param_slow_period
    /\ Len(ins.input_high) >= param_slow_period
    /\ \A c \in 2..4 : Len(ins[HlcvNames[c]]) = Len(ins.input_high)
    /\ \A k \in 1..4 : Len(outs[AdoscOutputs[k]]) = Len(ins.input_high)

\* The candles adosc is driven with: one closing at its high, one below its midpoint.
AdoscRows == {<<R(3), R(1), R(3), R(10)>>, <<R(4), R(0), R(1), R(2)>>}

\* The (fast, slow) pairs of the calls whose arrays disagree in length.
AdoscShapePars == {<<2, 3>>, <<0, 3>>, <<3, 3>>, <<2, MaxLen + 1>>}

\* The state adosc_inc is seeded with: the batch outputs at index i.
AdoscState(out, i) ==
    <<At(out.output_ad, i), At(out.output_ad_fast_ema, i), At(out.output_ad_slow_ema, i)>>

CallAdosc ==
    /\ call = NoCall
    /\ \E rows \in DataSeqs(AdoscRows, AdPlain, AdNaN) \cup AdFlatExamples,
          param_fast_period \in 0..MaxLen, param_slow_period \in 0..(MaxLen + 1),
          dev \in Devs({"input_low", "input_close", "input_volume"}
                       \cup {AdoscOutputs[k] : k \in 1..4}) :
          LET ins == HlcvIns(rows, dev)
              outs == AdoscBufs(Len(rows), dev)
              r == adosc(ins.input_high, ins.input_low, ins.input_close, ins.input_volume,
                         param_fast_period, param_slow_period, outs)
          IN  /\ \/ dev = NoDev
                 \/ /\ rows \in ShapeSeqs(AdPlain, AdNaN)
                    /\ <<param_fast_period, param_slow_period>> \in AdoscShapePars
              /\ cfg.check \/ AdoscContract(ins, param_fast_period, param_slow_period, outs)
              /\ call' = [fn |-> "adosc", ins |-> ins,
                          par |-> <<param_fast_period, param_slow_period>>]
              /\ pre' = outs
              /\ ret' = r
              /\ strm' = IF r.res = "Ok"
                         THEN [i |-> param_slow_period - 1,
                               st |-> AdoscState(r.out, param_slow_period - 1),
                               res |-> "seed", val |-> <<>>]
                         ELSE NoStream
    /\ UNCHANGED cfg

\* The next sample goes through adosc_inc, fed the state the previous call returned.
AdoscIncStep ==
    /\ call.fn = "adosc"
    /\ strm.res \in {"seed", "Ok"}
    /\ strm.i + 1 < Len(call.ins.input_high)
    /\ LET i == strm.i + 1
           r == adosc_inc(At(call.ins.input_high, i), At(call.ins.input_low, i),
                          At(call.ins.input_close, i), At(call.ins.input_volume, i),
                          strm.st[1], strm.st[2], strm.st[3], call.par[1], call.par[2])
       IN  strm' = [i |-> i, st |-> IF r.res = "Ok" THEN Tail(r.v) ELSE <<>>,
                    res |-> r.res, val |-> r.v]
    /\ UNCHANGED <<cfg, call, pre, ret>>

(***************************************************************************)
(* ohlcv::adr                                                              *)
(***************************************************************************)
adr_lookback(param_period) == sma_lookback(param_period)

adr(input_high, input_low, param_period, output_adr) ==
    LET len == Len(input_high)
        lb == adr_lookback(param_period)
        lookback == lb.v
        keep == [output_adr |-> output_adr]
        arrays == <<input_high, input_low>>
        names == <<"input_high", "input_low">>
        ranges == [j \in 1..len |-> FSub(input_high[j], input_low[j])]
        s == sma(ranges, param_period, output_adr)
        rd == AllIdx("input_high", 0, len) \cup AllIdx("input_low", 0, len)
    IN  IF lb.res # "Ok" THEN Ret(lb.res, keep, {}, {})
        ELSE IF cfg.check /\ len = 0 THEN Ret("InvalidData", keep, {}, {})
        ELSE IF cfg.check /\ len <= lookback THEN Ret("InsufficientData", keep, {}, {})
        ELSE IF cfg.check /\ (len # Len(input_low) \/ len # Len(output_adr))
        THEN Ret("LengthMismatch", keep, {}, {})
        ELSE IF cfg.check_nan /\ RowsHaveNaN(arrays, 0, len)
        THEN Ret("NaNDetected", keep, RowScanReads(names, arrays, 0, len), {})
        ELSE Ret(s.res, [output_adr |-> s.out.output_sma], rd, Renamed(s.wr, "output_adr"))

\* adr_inc handing sma_inc the outgoing range as the incoming one and back.
adr_inc_ranges_swapped(prev_adr, input_new_high, input_new_low, input_old_high, input_old_low, param_period) ==
    IF cfg.check /\ param_period < 2 THEN Res("InvalidParameter", <<>>)
    ELSE IF cfg.check_nan
            /\ \E x \in {input_new_high, input_new_low, input_old_high, input_old_low,
                         prev_adr} : is_nan(x)
    THEN Res("NaNDetected", <<>>)
    ELSE sma_inc(prev_adr, FSub(input_old_high, input_old_low),
                 FSub(input_new_high, input_new_low), param_period)

adr_inc(prev_adr, input_new_high, input_new_low, input_old_high, input_old_low, param_period) ==
    IF cfg.check /\ param_period < 2 THEN Res("InvalidParameter", <<>>)
    ELSE IF cfg.check_nan
            /\ \E x \in {input_new_high, input_new_low, input_old_high, input_old_low,
                         prev_adr} : is_nan(x)
    THEN Res("NaNDetected", <<>>)
    ELSE sma_inc(prev_adr, FSub(input_new_high, input_new_low),
                 FSub(input_old_high, input_old_low), param_period)

\* The samples <<high, low>> fed to adr: ranges 2 and 1.
AdrRows == {<<R(3), R(1)>>, <<R(2), R(1)>>}

AdrPlain == <<R(3), R(1)>>

AdrNaN == <<R(3), NaN>>

\* Candles whose range high - low is NaN although no sample is: both infinite.
AdrExamples ==
    {<<<<PInf, PInf>>, <<R(3), R(1)>>>>, <<<<R(3), R(1)>>, <<R(2), R(1)>>, <<PInf, PInf>>>>}

AdrContract(input_high, input_low, param_period, output_adr) ==
    /\ param_period >= 2
    /\ Len(input_high) >= param_period
    /\ Len(input_low) = Len(input_high)
    /\ Len(output_adr) = Len(input_high)

CallAdr ==
    /\ call = NoCall
    /\ \E rows \in DataSeqs(AdrRows, AdrPlain, AdrNaN) \cup AdrExamples,
          param_period \in 0..MaxLen,
          dev \in Devs({"input_low", "output_adr"}) :
          LET input_high == Col(rows, 1)
              input_low == Resize(Col(rows, 2), dev, "input_low", R(1))
              output_adr == Resize(Buf(0, Len(rows)), dev, "output_adr", R(70))
              r == adr(input_high, input_low, param_period, output_adr)
          IN  /\ dev = NoDev \/ rows \in ShapeSeqs(AdrPlain, AdrNaN)
              /\ cfg.check \/ AdrContract(input_high, input_low, param_period, output_adr)
              /\ call' = [fn |-> "adr",
                          ins |-> [input_high |-> input_high, input_low |-> input_low],
                          par |-> <<param_period>>]
              /\ pre' = [output_adr |-> output_adr]
              /\ ret' = r
              /\ strm' = IF r.res = "Ok"
                         THEN [i |-> param_period - 1,
                               st |-> <<At(r.out.output_adr, param_period - 1)>>,
                               res |-> "seed", val |-> <<>>]
                         ELSE NoStream
    /\ UNCHANGED cfg

\* The next sample goes through adr_inc, fed the previous result.
AdrIncStep ==
    /\ call.fn = "adr"
    /\ strm.res \in {"seed", "Ok"}
    /\ strm.i + 1 < Len(call.ins.input_high)
    /\ LET i == strm.i + 1
           p == call.par[1]
           r == adr_inc(strm.st[1], At(call.ins.input_high, i), At(call.ins.input_low, i),
                        At(call.ins.input_high, i - p), At(call.ins.input_low, i - p), p)
       IN  strm' = [i |-> i, st |-> r.v, res |-> r.res, val |-> r.v]
    /\ UNCHANGED <<cfg, call, pre, ret>>

(***************************************************************************)
(* ohlcv::wma                                                              *)
(***************************************************************************)
\* wma::lookback returning the period itself.
wma_lookback_whole_period(opt_period) ==
    IF cfg.check /\ opt_period < 2 THEN Res("InvalidParameter", 0)
    ELSE Res("Ok", opt_period)

wma_lookback(opt_period) ==
    IF cfg.check /\ opt_period < 2 THEN Res("InvalidParameter", 0)
    ELSE Res("Ok", opt_period - 1)

\* The sum of the weights without the halving: period * (period + 1).
wma_denominator_not_halved(opt_period) == R(opt_period * (opt_period + 1))

\* opt_period * (opt_period + 1) / 2, the sum of the weights.
wma_denominator(opt_period) == FDiv(R(opt_period * (opt_period + 1)), R(2))

\* The weighted sum with the weights counted up from the newest sample, so that
\* the oldest sample of the window weighs most.
RECURSIVE wma_weighted_sum_oldest_heaviest(_, _, _, _)
wma_weighted_sum_oldest_heaviest(input, opt_period, i, j) ==
    IF j = 0 THEN R(0)
    ELSE FAdd(wma_weighted_sum_oldest_heaviest(input, opt_period, i, j - 1),
              FMul(At(input, i - (j - 1)), R(j)))

\* weighted_sum after j rounds of the inner loop, which walks back from
\* input[i] with the weights opt_period, opt_period - 1, ...
RECURSIVE wma_weighted_sum(_, _, _, _)
wma_weighted_sum(input, opt_period, i, j) ==
    IF j = 0 THEN R(0)
    ELSE FAdd(wma_weighted_sum(input, opt_period, i, j - 1),
              FMul(At(input, i - (j - 1)), R(opt_period - (j - 1))))

wma(input, opt_period, output) ==
    LET len == Len(input)
        lb == wma_lookback(opt_period)
        lookback == lb.v
        keep == [output |-> output]
    IN  IF lb.res # "Ok" THEN Ret(lb.res, keep, {}, {})
        ELSE IF cfg.check /\ len = 0 THEN Ret("InvalidData", keep, {}, {})
        ELSE IF cfg.check /\ len # Len(output) THEN Ret("LengthMismatch", keep, {}, {})
        ELSE IF cfg.check /\ len <= lookback THEN Ret("InsufficientData", keep, {}, {})
        ELSE IF cfg.check_nan /\ AnyNaN(input)
        THEN Ret("NaNDetected", keep, ScanReads("input", input), {})
        ELSE Ret("Ok",
                 [output |->
                    [j \in 1..Len(output) |->
                        IF j - 1 >= lookback
                        THEN FDiv(wma_weighted_sum(input, opt_period, j - 1, opt_period),
                                  wma_denominator(opt_period))
                        ELSE NaN]],
                 AllIdx("input", 0, len),
                 AllIdx("output", 0, len))

\* wma_inc weighting the window from its last element to its first.
wma_inc_from_the_back(input_window, opt_period) ==
    IF cfg.check /\ opt_period < 2 THEN Res("InvalidParameter", <<>>)
    ELSE IF cfg.check /\ Len(input_window) # opt_period THEN Res("LengthMismatch", <<>>)
    ELSE IF cfg.check_nan /\ AnyNaN(input_window) THEN Res("NaNDetected", <<>>)
    ELSE Res("Ok", <<FDiv(wma_weighted_sum(input_window, opt_period,
                                           Len(input_window) - 1, Len(input_window)),
                          wma_denominator(opt_period))>>)

\* The window holds the newest sample first.
wma_inc(input_window, opt_period) ==
    IF cfg.check /\ opt_period < 2 THEN Res("InvalidParameter", <<>>)
    ELSE IF cfg.check /\ Len(input_window) # opt_period THEN Res("LengthMismatch", <<>>)
    ELSE IF cfg.check_nan /\ AnyNaN(input_window) THEN Res("NaNDetected", <<>>)
    ELSE Res("Ok", <<FDiv(wma_weighted_sum(Reverse(input_window), opt_period,
                                           Len(input_window) - 1, Len(input_window)),
                          wma_denominator(opt_period))>>)

WmaVals == {R(1), R(3)}

\* The input of the example in wma's documentation: [1, 2, 3, 4, 5].
WmaDocExample == <<R(1), R(2), R(3), R(4), R(5)>>

WmaContract(input, opt_period, output) ==
    /\ opt_period >= 2
    /\ Len(input) >= opt_period
    /\ Len(output) = Len(input)

CallWma ==
    /\ call = NoCall
    /\ \E input \in DataSeqs(WmaVals, R(1), NaN) \cup {WmaDocExample},
          opt_period \in 0..MaxLen,
          dev \in Devs({"output"}) :
          LET output == Resize(Buf(0, Len(input)), dev, "output", R(70))
              r == wma(input, opt_period, output)
          IN  /\ dev = NoDev \/ input \in ShapeSeqs(R(1), NaN)
              /\ cfg.check \/ WmaContract(input, opt_period, output)
              /\ call' = [fn |-> "wma", ins |-> [input |-> input], par |-> <<opt_period>>]
              /\ pre' = [output |-> output]
              /\ ret' = r
              /\ strm' = IF r.res = "Ok"
                         THEN [i |-> opt_period - 1, st |-> <<>>, res |-> "seed",
                               val |-> <<>>]
                         ELSE NoStream
    /\ UNCHANGED cfg

\* wma_inc on the window ending at the next sample, newest sample first: the
\* last opt_period samples, or one sample fewer or more than that.
WmaIncStep ==
    /\ call.fn = "wma"
    /\ strm.res \in {"seed", "Ok", "LengthMismatch"}
    /\ strm.i + 1 < Len(call.ins.input)
    /\ \E n \in {call.par[1] - 1, call.par[1], call.par[1] + 1} :
          LET i == strm.i + 1
              input_window == [j \in 1..n |-> At(call.ins.input, i - (j - 1))]
              r == wma_inc(input_window, call.par[1])
          IN  /\ n <= i + 1
              /\ strm' = [i |-> i, st |-> input_window, res |-> r.res, val |-> r.v]
    /\ UNCHANGED <<cfg, call, pre, ret>>

(***************************************************************************)
(* ohlcv::rocp                                                             *)
(***************************************************************************)
rocp_lookback(opt_period) ==
    IF cfg.check /\ opt_period < 1 THEN Res("InvalidParameter", 0)
    ELSE Res("Ok", opt_period)

\* rocp with a length test that lets a shorter output array through.
rocp_accepts_short_output(input_price, opt_period, output_rocp) ==
    LET len == Len(input_price)
        lb == rocp_lookback(opt_period)
        lookback == lb.v
        keep == [output_rocp |-> output_rocp]
    IN  IF lb.res # "Ok" THEN Ret(lb.res, keep, {}, {})
        ELSE IF cfg.check /\ len = 0 THEN Ret("InvalidData", keep, {}, {})
        ELSE IF cfg.check /\ len <= lookback THEN Ret("InsufficientData", keep, {}, {})
        ELSE IF cfg.check /\ len < Len(output_rocp) THEN Ret("LengthMismatch", keep, {}, {})
        ELSE IF cfg.check_nan /\ AnyNaN(input_price)
        THEN Ret("NaNDetected", keep, ScanReads("input_price", input_price), {})
        ELSE Ret("Ok",
                 [output_rocp |->
                    [j \in 1..Len(output_rocp) |->
                        IF j - 1 >= lookback
                        THEN FDiv(FSub(At(input_price, j - 1),
                                       At(input_price, j - 1 - opt_period)),
                                  At(input_price, j - 1 - opt_period))
                        ELSE NaN]],
                 AllIdx("input_price", 0, len),
                 AllIdx("output_rocp", 0, len))

rocp(input_price, opt_period, output_rocp) ==
    LET len == Len(input_price)
        lb == rocp_lookback(opt_period)
        lookback == lb.v
        keep == [output_rocp |-> output_rocp]
    IN  IF lb.res # "Ok" THEN Ret(lb.res, keep, {}, {})
        ELSE IF cfg.check /\ len = 0 THEN Ret("InvalidData", keep, {}, {})
        ELSE IF cfg.check /\ len <= lookback THEN Ret("InsufficientData", keep, {}, {})
        ELSE IF cfg.check /\ len # Len(output_rocp) THEN Ret("LengthMismatch", keep, {}, {})
        ELSE IF cfg.check_nan /\ AnyNaN(input_price)
        THEN Ret("NaNDetected", keep, ScanReads("input_price", input_price), {})
        ELSE Ret("Ok",
                 [output_rocp |->
                    [j \in 1..Len(output_rocp) |->
                        IF j - 1 >= lookback
                        THEN FDiv(FSub(At(input_price, j - 1),
                                       At(input_price, j - 1 - opt_period)),
                                  At(input_price, j - 1 - opt_period))
                        ELSE NaN]],
                 AllIdx("input_price", 0, len),
                 AllIdx("output_rocp", 0, len))

\* rocp_inc dividing the change by the current price.
rocp_inc_over_current(input, prev) ==
    IF cfg.check_nan /\ (is_nan(input) \/ is_nan(prev)) THEN Res("NaNDetected", <<>>)
    ELSE Res("Ok", <<FDiv(FSub(input, prev), input)>>)

rocp_inc(input, prev) ==
    IF cfg.check_nan /\ (is_nan(input) \/ is_nan(prev)) THEN Res("NaNDetected", <<>>)
    ELSE Res("Ok", <<FDiv(FSub(input, prev), prev)>>)

RocpVals == {R(0), R(1), R(2)}

RocpContract(input_price, opt_period, output_rocp) ==
    /\ opt_period >= 1
    /\ Len(input_price) > opt_period
    /\ Len(output_rocp) = Len(input_price)

CallRocp ==
    /\ call = NoCall
    /\ \E input_price \in DataSeqs(RocpVals, R(1), NaN), opt_period \in 0..MaxLen,
          dev \in Devs({"output_rocp"}) :
          LET output_rocp == Resize(Buf(0, Len(input_price)), dev, "output_rocp", R(70))
              r == rocp(input_price, opt_period, output_rocp)
          IN  /\ dev = NoDev \/ input_price \in ShapeSeqs(R(1), NaN)
              /\ cfg.check \/ RocpContract(input_price, opt_period, output_rocp)
              /\ call' = [fn |-> "rocp", ins |-> [input_price |-> input_price],
                          par |-> <<opt_period>>]
              /\ pre' = [output_rocp |-> output_rocp]
              /\ ret' = r
              /\ strm' = IF r.res = "Ok"
                         THEN [i |-> opt_period - 1, st |-> <<>>, res |-> "seed",
                               val |-> <<>>]
                         ELSE NoStream
    /\ UNCHANGED cfg

\* rocp_inc on the next sample and the sample opt_period before it.
RocpIncStep ==
    /\ call.fn = "rocp"
    /\ strm.res \in {"seed", "Ok"}
    /\ strm.i + 1 < Len(call.ins.input_price)
    /\ LET i == strm.i + 1
           r == rocp_inc(At(call.ins.input_price, i),
                         At(call.ins.input_price, i - call.par[1]))
       IN  strm' = [i |-> i, st |-> <<>>, res |-> r.res, val |-> r.v]
    /\ UNCHANGED <<cfg, call, pre, ret>>

(***************************************************************************)
(* ohlcv::ha                                                               *)
(***************************************************************************)
ha_lookback == Res("Ok", 1)

\* ha_inc opening the candle at the midpoint of the current open and close.
ha_inc_open_from_current(curr_open, curr_high, curr_low, curr_close, prev_ha_open, prev_ha_close) ==
    IF cfg.check_nan
       /\ \E x \in {curr_open, curr_high, curr_low, curr_close, prev_ha_open,
                    prev_ha_close} : is_nan(x)
    THEN Res("NaNDetected", <<>>)
    ELSE LET ha_close == FDiv(FAdd(FAdd(FAdd(curr_open, curr_high), curr_low), curr_close),
                              R(4))
             ha_open == midpoint(curr_open, curr_close)
             ha_high == FMax(FMax(curr_high, ha_open), ha_close)
             ha_low == FMin(FMin(curr_low, ha_open), ha_close)
         IN  Res("Ok", <<ha_open, ha_high, ha_low, ha_close>>)

\* ha_inc taking the high and the low of the input candle as they are.
ha_inc_keeps_input_range(curr_open, curr_high, curr_low, curr_close, prev_ha_open, prev_ha_close) ==
    IF cfg.check_nan
       /\ \E x \in {curr_open, curr_high, curr_low, curr_close, prev_ha_open,
                    prev_ha_close} : is_nan(x)
    THEN Res("NaNDetected", <<>>)
    ELSE LET ha_close == FDiv(FAdd(FAdd(FAdd(curr_open, curr_high), curr_low), curr_close),
                              R(4))
             ha_open == midpoint(prev_ha_open, prev_ha_close)
         IN  Res("Ok", <<ha_open, curr_high, curr_low, ha_close>>)

ha_inc(curr_open, curr_high, curr_low, curr_close, prev_ha_open, prev_ha_close) ==
    IF cfg.check_nan
       /\ \E x \in {curr_open, curr_high, curr_low, curr_close, prev_ha_open,
                    prev_ha_close} : is_nan(x)
    THEN Res("NaNDetected", <<>>)
    ELSE LET ha_close == FDiv(FAdd(FAdd(FAdd(curr_open, curr_high), curr_low), curr_close),
                              R(4))
             ha_open == midpoint(prev_ha_open, prev_ha_close)
             ha_high == FMax(FMax(curr_high, ha_open), ha_close)
             ha_low == FMin(FMin(curr_low, ha_open), ha_close)
         IN  Res("Ok", <<ha_open, ha_high, ha_low, ha_close>>)

OhlcNames == <<"input_open", "input_high", "input_low", "input_close">>

HaOutputs == <<"output_open", "output_high", "output_low", "output_close">>

\* Row i of each of the arrays named by `names`, for i = lo .. hi-1.
RowIdx(names, lo, hi) == UNION {AllIdx(names[c], lo, hi) : c \in 1..Len(names)}

\* The loop `for i in lookback..len` from index i on: each round hands candle i
\* and the outputs at i - 1 to ha_inc, leaves on its error, and stores its result.
RECURSIVE ha_loop(_, _, _)
ha_loop(ins, outs, i) ==
    IF i >= Len(ins.input_open)
    THEN Ret("Ok", outs, RowIdx(OhlcNames, 0, i), RowIdx(HaOutputs, 0, i))
    ELSE LET r == ha_inc(At(ins.input_open, i), At(ins.input_high, i),
                         At(ins.input_low, i), At(ins.input_close, i),
                         At(outs.output_open, i - 1), At(outs.output_close, i - 1))
         IN  IF r.res # "Ok"
             THEN Ret(r.res, outs, RowIdx(OhlcNames, 0, i + 1), RowIdx(HaOutputs, 0, i))
             ELSE ha_loop(ins,
                          [output_open |-> Put(outs.output_open, i, r.v[1]),
                           output_high |-> Put(outs.output_high, i, r.v[2]),
                           output_low |-> Put(outs.output_low, i, r.v[3]),
                           output_close |-> Put(outs.output_close, i, r.v[4])],
                          i + 1)

ha(input_open, input_high, input_low, input_close, outs) ==
    LET len == Len(input_open)
        lookback == ha_lookback.v
        arrays == <<input_open, input_high, input_low, input_close>>
        ins == [input_open |-> input_open, input_high |-> input_high,
                input_low |-> input_low, input_close |-> input_close]
        first ==
            [output_close |->
                Put(outs.output_close, 0,
                    FDiv(FAdd(FAdd(FAdd(At(input_open, 0), At(input_high, 0)),
                                   At(input_low, 0)), At(input_close, 0)), R(4))),
             output_open |->
                Put(outs.output_open, 0, midpoint(At(input_open, 0), At(input_close, 0))),
             output_high |-> Put(outs.output_high, 0, At(input_high, 0)),
             output_low |-> Put(outs.output_low, 0, At(input_low, 0))]
    IN  IF cfg.check /\ len = 0 THEN Ret("InvalidData", outs, {}, {})
        ELSE IF cfg.check
                /\ (len # Len(input_high) \/ len # Len(input_low)
                    \/ len # Len(input_close)
                    \/ \E k \in 1..4 : len # Len(outs[HaOutputs[k]]))
        THEN Ret("LengthMismatch", outs, {}, {})
        ELSE IF cfg.check_nan /\ RowsHaveNaN(arrays, 0, len)
        THEN Ret("NaNDetected", outs, RowScanReads(OhlcNames, arrays, 0, len), {})
        ELSE ha_loop(ins, first, lookback)

\* The candles <<open, high, low, close>> fed to ha: an ordinary one, a lower
\* one, and one whose range is unbounded.
HaRows == {<<R(2), R(4), R(1), R(3)>>, <<R(1), R(2), R(0), R(1)>>, <<PInf, PInf, NInf, R(1)>>}

HaPlain == <<R(2), R(4), R(1), R(3)>>

\* A series whose first candle opens above its high.
HaExamples == {<<<<R(6), R(4), R(1), R(4)>>, <<R(1), R(2), R(0), R(1)>>>>}

HaNaN == <<R(2), NaN, R(1), R(3)>>

HaContract(ins, outs) ==
    /\ Len(ins.input_open) >= 1
    /\ \A c \in 2..4 : Len(ins[OhlcNames[c]]) = Len(ins.input_open)
    /\ \A k \in 1..4 : Len(outs[HaOutputs[k]]) = Len(ins.input_open)

OhlcIns(rows, dev) ==
    [name \in {OhlcNames[c] : c \in 1..4} |->
        LET c == CHOOSE c \in 1..4 : OhlcNames[c] = name
        IN  Resize(Col(rows, c), dev, name, R(1))]

HaBufs(len, dev) ==
    [name \in {HaOutputs[k] : k \in 1..4} |->
        LET k == CHOOSE k \in 1..4 : HaOutputs[k] = name
        IN  Resize(Buf(k, len), dev, name, R(70))]

CallHa ==
    /\ call = NoCall
    /\ \E rows \in DataSeqs(HaRows, HaPlain, HaNaN) \cup HaExamples,
          dev \in Devs({"input_high", "input_low", "input_close"}
                       \cup {HaOutputs[k] : k \in 1..4}) :
          LET ins == OhlcIns(rows, dev)
              outs == HaBufs(Len(rows), dev)
              r == ha(ins.input_open, ins.input_high, ins.input_low, ins.input_close, outs)
          IN  /\ dev = NoDev \/ rows \in ShapeSeqs(HaPlain, HaNaN)
              /\ cfg.check \/ HaContract(ins, outs)
              /\ call' = [fn |-> "ha", ins |-> ins, par |-> <<>>]
              /\ pre' = outs
              /\ ret' = r
              /\ strm' = NoStream
    /\ UNCHANGED cfg

(***************************************************************************)
(* The lookback functions, called on their own.                            *)
(***************************************************************************)
\* `period - 1` on a usize: for period = 0 the build's overflow checks decide
\* between a panic and the wrapped value usize::MAX.
UsizeDecrement(r, period) ==
    IF r.res = "Ok" /\ period = 0 THEN {Res("Panic", 0), Res("OkUsizeMax", 0)} ELSE {r}

\* The kernels with one period, and the outcomes of their lookback(period).
PeriodKernels == {"sma", "wma", "correl", "adr", "rocp"}

period_lookback(kernel, period) ==
    IF kernel = "sma" THEN UsizeDecrement(sma_lookback(period), period)
    ELSE IF kernel = "wma" THEN UsizeDecrement(wma_lookback(period), period)
    ELSE IF kernel = "correl" THEN UsizeDecrement(correl_lookback(period), period)
    ELSE IF kernel = "adr" THEN UsizeDecrement(adr_lookback(period), period)
    ELSE {rocp_lookback(period)}

CallLookback ==
    /\ call = NoCall
    /\ \/ \E kernel \in PeriodKernels, period \in 0..(MaxLen + 1) :
             \E r \in period_lookback(kernel, period) :
                /\ call' = [fn |-> "lookback", ins |-> [kernel |-> kernel],
                            par |-> <<period>>]
                /\ ret' = Ret(r.res, <<r.v>>, {}, {})
       \/ \E fast \in 0..(MaxLen + 1), slow \in 0..(MaxLen + 1) :
             \E r \in UsizeDecrement(adosc_lookback(fast, slow), slow) :
                /\ call' = [fn |-> "lookback", ins |-> [kernel |-> "adosc"],
                            par |-> <<fast, slow>>]
                /\ ret' = Ret(r.res, <<r.v>>, {}, {})
       \/ \E kernel \in {"ad", "ha"} :
             LET r == IF kernel = "ad" THEN ad_lookback ELSE ha_lookback
             IN  /\ call' = [fn |-> "lookback", ins |-> [kernel |-> kernel], par |-> <<>>]
                 /\ ret' = Ret(r.res, <<r.v>>, {}, {})
    /\ pre' = <<>>
    /\ strm' = NoStream
    /\ UNCHANGED cfg

(***************************************************************************)
(* The incremental kernels, called on their own with any parameters.       *)
(***************************************************************************)
IncKernels == {"sma_inc", "adr_inc", "correl_inc", "wma_inc", "adosc_inc"}

\* The newest sample of such a call; the other arguments are fixed numbers.
IncSamples == {R(1), R(3), NaN}

\* The result of kernel on the sample x with the period p (fast p, slow q).
inc_call(kernel, x, p, q) ==
    IF kernel = "sma_inc" THEN sma_inc(R(2), x, R(1), p)
    ELSE IF kernel = "adr_inc" THEN adr_inc(R(2), x, R(1), R(3), R(1), p)
    ELSE IF kernel = "correl_inc"
    THEN correl_inc(x, R(2), R(1), R(1), R(3), R(4), R(5), R(6), R(5), p)
    ELSE IF kernel = "wma_inc" THEN wma_inc([j \in 1..p |-> x], p)
    ELSE adosc_inc(R(4), R(1), x, R(10), R(5), R(4), R(3), p, q)

CallInc ==
    /\ call = NoCall
    /\ \E kernel \in IncKernels, x \in IncSamples, p \in 0..MaxLen, q \in 0..(MaxLen + 1) :
          LET r == inc_call(kernel, x, p, q)
          IN  /\ kernel = "adosc_inc" \/ q = 0
              /\ call' = [fn |-> kernel, ins |-> [sample |-> x],
                          par |-> IF kernel = "adosc_inc" THEN <<p, q>> ELSE <<p>>]
              /\ ret' = Ret(r.res, r.v, {}, {})
    /\ pre' = <<>>
    /\ strm' = NoStream
    /\ UNCHANGED cfg

(***************************************************************************)
(* Specification.                                                          *)
(***************************************************************************)
Init ==
    /\ cfg \in Configs
    /\ call = NoCall
    /\ pre = <<>>
    /\ ret = Ret("none", <<>>, {}, {})
    /\ strm = NoStream

Next ==
    \/ CallSma
    \/ SmaIncStep
    \/ CallCorrel
    \/ CorrelIncStep
    \/ CallAd
    \/ AdIncStep
    \/ CallAdosc
    \/ AdoscIncStep
    \/ CallAdr
    \/ AdrIncStep
    \/ CallWma
    \/ WmaIncStep
    \/ CallRocp
    \/ RocpIncStep
    \/ CallHa
    \/ CallLookback
    \/ CallInc

Spec == Init /\ [][Next]_vars


(***************************************************************************)
(* Claims.                                                                 *)
(***************************************************************************)
AllFinite(s) == \A k \in 1..Len(s) : IsFinite(s[k])

\* A stream step has been taken (an incremental kernel has returned).
Stepped == strm.res \notin {"none", "seed"}

\* C1: for a series of finite samples and 2 <= p <= n, sma_inc seeded with
\* output_sma[p-1] and fed input[i], input[i-p] for i = p .. n-1, each call given
\* the previous call's result, succeeds and returns output_sma[i] at every step.
C1_SmaIncEqualsBatch ==
    (call.fn = "sma" /\ Stepped /\ AllFinite(call.ins.input))
        => /\ strm.res = "Ok"
           /\ strm.i >= call.par[1]
           /\ strm.val = <<At(ret.out.output_sma, strm.i)>>

\* The second chained sma_inc call has returned, on a window whose mean moved.
C1_Witness ==
    /\ call.fn = "sma"
    /\ strm.res = "Ok"
    /\ strm.i >= call.par[1] + 1
    /\ AllFinite(call.ins.input)
    /\ At(ret.out.output_sma, strm.i) # At(ret.out.output_sma, strm.i - 1)
    /\ At(ret.out.output_sma, strm.i - 1) # At(ret.out.output_sma, strm.i - 2)

\* C2: for two equal-length finite series and p >= 2, at every index i with
\* p <= i < len, correl_inc given the samples entering and leaving the window and
\* the five sums the batch kernel stored at i - 1 returns the correlation the
\* batch kernel wrote at i and the five sums it stored at i.
C2_CorrelIncEqualsBatch ==
    (call.fn = "correl" /\ Stepped
        /\ AllFinite(call.ins.input_0) /\ AllFinite(call.ins.input_1))
        => /\ strm.res = "Ok"
           /\ strm.i >= call.par[1]
           /\ strm.st = StoredSums(ret.out, strm.i - 1)
           /\ strm.val = <<At(ret.out.output_correl, strm.i)>> \o StoredSums(ret.out, strm.i)

\* correl_inc has returned a defined correlation strictly inside (-1, 1) for a
\* window whose sums all differ from the previous window's.
C2_Witness ==
    /\ call.fn = "correl"
    /\ strm.res = "Ok"
    /\ strm.i >= call.par[1]
    /\ ~is_nan(strm.val[1])
    /\ Len(strm.val[1]) = 3
    /\ strm.val[1][2] # 0
    /\ strm.val[1][2] < strm.val[1][3]
    /\ \A k \in 1..5 : strm.val[k + 1] # strm.st[k]

\* The A/D line by the published formula: the sum over k <= i of MFM(k) * volume[k],
\* MFM = ((close - low) - (high - close)) / (high - low), 0 on a zero range.
RECURSIVE AdLine(_, _)
AdLine(ins, i) ==
    IF i < 0 THEN R(0)
    ELSE LET h == At(ins.input_high, i)
             l == At(ins.input_low, i)
             c == At(ins.input_close, i)
             m == IF h = l THEN R(0) ELSE FDiv(FSub(FSub(c, l), FSub(h, c)), FSub(h, l))
         IN  FAdd(AdLine(ins, i - 1), FMul(m, At(ins.input_volume, i)))

\* C4: a successful ad call on finite samples writes every index of output_ad,
\* output_ad[0] = MFM(0) * volume[0] and output_ad[i] = output_ad[i-1] +
\* MFM(i) * volume[i]; and ad_inc on sample i >= 1 given output_ad[i-1] returns
\* output_ad[i].
C4_AdRecurrence ==
    (call.fn = "ad" /\ ret.res = "Ok" /\ \A c \in 1..4 : AllFinite(call.ins[HlcvNames[c]]))
        => /\ ad_lookback = Res("Ok", 0)
           /\ ret.wr = AllIdx("output_ad", 0, Len(call.ins.input_high))
           /\ \A i \in 0..(Len(call.ins.input_high) - 1) :
                 At(ret.out.output_ad, i) = AdLine(call.ins, i)
           /\ Stepped => /\ strm.res = "Ok"
                         /\ strm.i >= 1
                         /\ strm.val = <<At(ret.out.output_ad, strm.i)>>

\* ad_inc has returned the third value of an A/D line that moved at every sample.
C4_Witness ==
    /\ call.fn = "ad"
    /\ strm.res = "Ok"
    /\ strm.i = 2
    /\ At(ret.out.output_ad, 0) # R(0)
    /\ At(ret.out.output_ad, 1) # At(ret.out.output_ad, 0)
    /\ strm.val[1] # At(ret.out.output_ad, 1)
    /\ IsFinite(strm.val[1])

BatchKernels == {"sma", "wma", "rocp", "correl", "ad", "ha", "adr", "adosc"}

\* The call's parameters lie outside the kernel's documented domain.
ParamOutsideDomain ==
    \/ call.fn \in {"sma", "wma", "correl", "adr"} /\ call.par[1] < 2
    \/ call.fn = "rocp" /\ call.par[1] < 1
    \/ call.fn = "adosc" /\ (call.par[1] < 2 \/ call.par[2] < 2 \/ call.par[1] >= call.par[2])

\* The first input array of the call, whose length the kernel takes as `len`.
FirstInput ==
    IF call.fn \in {"sma", "wma"} THEN call.ins.input
    ELSE IF call.fn = "rocp" THEN call.ins.input_price
    ELSE IF call.fn = "correl" THEN call.ins.input_0
    ELSE IF call.fn = "ha" THEN call.ins.input_open
    ELSE call.ins.input_high

\* The lookback the call's kernel resolves from its parameters.
ResolvedLookback ==
    IF call.fn = "sma" THEN sma_lookback(call.par[1]).v
    ELSE IF call.fn = "wma" THEN wma_lookback(call.par[1]).v
    ELSE IF call.fn = "correl" THEN correl_lookback(call.par[1]).v
    ELSE IF call.fn = "adr" THEN adr_lookback(call.par[1]).v
    ELSE IF call.fn = "rocp" THEN rocp_lookback(call.par[1]).v
    ELSE IF call.fn = "adosc" THEN adosc_lookback(call.par[1], call.par[2]).v
    ELSE IF call.fn = "ha" THEN ha_lookback.v
    ELSE ad_lookback.v

\* C5: whenever a batch kernel (sma, wma, rocp, correl, ad, ha, adr, adosc)
\* returns an error, every element of every output array, adosc's intermediate
\* buffers included, still holds the value it had before the call.
C5_NoPartialWrites ==
    (call.fn \in BatchKernels /\ ret.res # "Ok") => ret.out = pre

C7_EmptyInputIsInvalidData ==
    (/\ cfg.check
     /\ call.fn \in BatchKernels
     /\ ~ParamOutsideDomain
     /\ \E name \in DOMAIN call.ins : Len(call.ins[name]) = 0)
        => ret.res = "InvalidData"

\* Every input and output array of the call has the first input's length.
SameLengths ==
    /\ \A name \in DOMAIN call.ins : Len(call.ins[name]) = Len(FirstInput)
    /\ \A name \in DOMAIN pre : Len(pre[name]) = Len(FirstInput)

\* C8: with structural checks enabled and valid parameters, a batch call on
\* non-empty arrays of one length that is no more than the kernel's lookback
\* returns InsufficientData; ha (lookback 1) on one candle is such a call.
C8_ShortInputIsInsufficientData ==
    (/\ cfg.check
     /\ call.fn \in BatchKernels
     /\ ~ParamOutsideDomain
     /\ Len(FirstInput) > 0
     /\ Len(FirstInput) <= ResolvedLookback
     /\ SameLengths)
        => ret.res = "InsufficientData"

\* The lookback call returned what the documented rule gives for its
\* parameters: period - 1 from period 2 on for sma, wma, correl and adr,
\* slow - 1 for adosc with 2 <= fast < slow, and InvalidParameter otherwise.
LookbackRule ==
    LET kernel == call.ins.kernel
        expected ==
            IF kernel = "adosc"
            THEN (IF 2 <= call.par[1] /\ call.par[1] < call.par[2]
                  THEN Res("Ok", call.par[2] - 1) ELSE Res("InvalidParameter", 0))
            ELSE (IF call.par[1] >= 2
                  THEN Res("Ok", call.par[1] - 1) ELSE Res("InvalidParameter", 0))
    IN  kernel \in {"sma", "wma", "correl", "adr", "adosc"}
            => ret.res = expected.res /\ ret.out = <<expected.v>>

PolicyOutputs == IF call.fn = "adosc" THEN {"output_adosc"} ELSE DOMAIN ret.out

\* C10: after a successful sma, adr, wma, rocp, correl or adosc call, each
\* output element below the lookback is NaN in a build that fills with NaN
\* and holds the caller's value from before the call in a build that does not.
C10_PreLookbackPolicy ==
    (call.fn \in {"sma", "adr", "wma", "rocp", "correl", "adosc"} /\ ret.res = "Ok")
        => \A name \in PolicyOutputs :
              \A i \in 0..(ResolvedLookback - 1) :
                  At(ret.out[name], i) = IF cfg.allow_nan THEN NaN ELSE At(pre[name], i)

(***************************************************************************)
(* Values the kernels write                                                *)
(***************************************************************************)
\* The mean of the window input[i-p+1 .. i], summed afresh.
WindowMean(input, p, i) == FDiv(SumRange(input, i - p + 1, i + 1), R(p))

\* The indices of output_sma that a successful call wrote with a number.
SmaValid ==
    {i \in 0..(Len(ret.out.output_sma) - 1) :
        <<"output_sma", i>> \in ret.wr /\ ~is_nan(At(ret.out.output_sma, i))}

\* C11 (as stated): after a successful sma call on any input of length n with
\* 2 <= p <= n, output_sma[i] is the mean of input[i-p+1 .. i] summed afresh for
\* every i in p-1 .. n-1, and no other index holds a valid output.
C11_SmaValuesAnyInput ==
    (call.fn = "sma" /\ ret.res = "Ok")
        => LET n == Len(call.ins.input)
               p == call.par[1]
           IN  /\ 2 <= p /\ p <= n
               /\ \A i \in (p - 1)..(n - 1) :
                      At(ret.out.output_sma, i) = WindowMean(call.ins.input, p, i)
               /\ SmaValid \subseteq (p - 1)..(n - 1)

\* C11 (amended): the same, for an input whose samples are all finite; the
\* valid outputs are exactly the indices p-1 .. n-1.
C11_SmaValues ==
    (call.fn = "sma" /\ ret.res = "Ok" /\ AllFinite(call.ins.input))
        => LET n == Len(call.ins.input)
               p == call.par[1]
           IN  /\ 2 <= p /\ p <= n
               /\ \A i \in (p - 1)..(n - 1) :
                      At(ret.out.output_sma, i) = WindowMean(call.ins.input, p, i)
               /\ SmaValid = (p - 1)..(n - 1)
               /\ Cardinality(SmaValid) = n - p + 1

\* A successful sma call whose window slid twice over samples that moved the mean.
C11_Witness ==
    /\ call.fn = "sma"
    /\ ret.res = "Ok"
    /\ AllFinite(call.ins.input)
    /\ Len(call.ins.input) >= call.par[1] + 2
    /\ LET n == Len(call.ins.input)
       IN  /\ At(ret.out.output_sma, n - 1) # At(ret.out.output_sma, n - 2)
           /\ At(ret.out.output_sma, n - 2) # At(ret.out.output_sma, n - 3)
           /\ At(call.ins.input, n - 1 - call.par[1]) # R(0)

\* The output array of an sma or adr call.
MeanOutput == IF call.fn = "sma" THEN "output_sma" ELSE "output_adr"

C13_AdoscWarmupNaN ==
    (call.fn = "adosc" /\ ret.res = "Ok" /\ cfg.allow_nan
     /\ \A c \in 1..4 : AllFinite(call.ins[HlcvNames[c]]))
        => \A i \in 0..(call.par[2] - 2) : is_nan(At(ret.out.output_adosc, i))

\* The rows of the current ad or adosc call whose high equals its low.
ZeroRange(i) == At(call.ins.input_high, i) = At(call.ins.input_low, i)

AdDocCall == call.fn = "ad" /\ call.ins = HlcvIns(AdDocExample, NoDev)

\* C15 (as stated): ad on high = [10, 12, 15], low = [8, 9, 11],
\* close = [9, 11, 13], volume = [100, 150, 200] succeeds with
\* output_ad[0] = -100 and output_ad[1] = -125.
C15_AdDocExampleAsStated ==
    AdDocCall
        => /\ ret.res = "Ok"
           /\ At(ret.out.output_ad, 0) = R(0 - 100)
           /\ At(ret.out.output_ad, 1) = R(0 - 125)

\* C15 (amended): on that series ad succeeds with output_ad = [0, 50, 50], the
\* values of the published formula ((close - low) - (high - close)) / (high - low)
\* * volume accumulated from an initial A/D of 0: multipliers 0, 1/3 and 0.
C15_AdDocExample ==
    AdDocCall
        => /\ ret.res = "Ok"
           /\ ret.out.output_ad = <<R(0), R(50), R(50)>>
           /\ \A i \in 0..2 : At(ret.out.output_ad, i) = AdLine(call.ins, i)
           /\ mfm_of(R(12), R(9), R(11)) = Q(1, 3)

\* The call on the documentation example has returned.
C15_Witness ==
    /\ AdDocCall
    /\ ret.res = "Ok"
    /\ At(ret.out.output_ad, 1) = R(50)
    /\ At(pre.output_ad, 1) = R(72)

\* The indices of the window that ends at index i of the current call.
Window(i) == (i - call.par[1] + 1)..i

\* The slope a of the line y = a*x + b through every pair of the window ending at
\* i; NaN when x is constant over the window or the pairs are not on one line.
WindowSlope(i) ==
    LET x == call.ins.input_0
        y == call.ins.input_1
        ends == {jk \in Window(i) \X Window(i) : At(x, jk[1]) # At(x, jk[2])}
    IN  IF ends = {} THEN NaN
        ELSE LET jk == CHOOSE jk \in ends : TRUE
                 k == jk[2]
                 a == FDiv(FSub(At(y, jk[1]), At(y, k)), FSub(At(x, jk[1]), At(x, k)))
             IN  IF \A m \in Window(i) :
                        FSub(At(y, m), At(y, k)) = FMul(a, FSub(At(x, m), At(x, k)))
                 THEN a ELSE NaN

\* Series s takes one value over the window ending at i.
ConstantOver(s, i) == \A j \in Window(i) : At(s, j) = At(s, i)

\* The correlations +1.0 and -1.0.
PlusOne == SqrtVal(1, R(1))

MinusOne == SqrtVal(-1, R(1))

\* C16: correl with period 3 writes 1.0 at indices 2..4 for x = [1..5],
\* y = [2, 4, 6, 8, 10], -1.0 for y = [9, 8, 7, 6, 5], and NaN for a constant x;
\* and in every successful call on finite samples, a window in which
\* y = a*x + b with a non-constant x gets +1 if a > 0 and -1 if a < 0, and a
\* window over which either series is constant gets NaN.
C16_PerfectCorrelation ==
    (call.fn = "correl" /\ ret.res = "Ok"
     /\ AllFinite(call.ins.input_0) /\ AllFinite(call.ins.input_1))
        => LET out == ret.out.output_correl
           IN  /\ \A i \in (call.par[1] - 1)..(Len(call.ins.input_0) - 1) :
                     /\ FLt(R(0), WindowSlope(i)) => At(out, i) = PlusOne
                     /\ FLt(WindowSlope(i), R(0)) => At(out, i) = MinusOne
                     /\ (ConstantOver(call.ins.input_0, i)
                         \/ ConstantOver(call.ins.input_1, i)) => is_nan(At(out, i))
               /\ call.par[1] = 3
                     => /\ call.ins = [input_0 |-> Col(CorrelPositive, 1),
                                       input_1 |-> Col(CorrelPositive, 2)]
                              => \A i \in 2..4 : At(out, i) = PlusOne
                        /\ call.ins = [input_0 |-> Col(CorrelNegative, 1),
                                       input_1 |-> Col(CorrelNegative, 2)]
                              => \A i \in 2..4 : At(out, i) = MinusOne
                        /\ call.ins = [input_0 |-> Col(CorrelNoVariance, 1),
                                       input_1 |-> Col(CorrelNoVariance, 2)]
                              => \A i \in 2..4 : is_nan(At(out, i))

\* The call of period 3 on y = -x + 10 has returned -1.0 at indices 2, 3 and 4.
C16_Witness ==
    /\ call.fn = "correl"
    /\ call.par = <<3>>
    /\ call.ins.input_1 = Col(CorrelNegative, 2)
    /\ ret.res = "Ok"
    /\ \A i \in 2..4 : At(ret.out.output_correl, i) = MinusOne
    /\ FLt(WindowSlope(4), R(0))

\* A correlation value v lies in [-1, 1]: s * sqrt(n/d) with n/d <= 1, or a
\* plain number between -1 and 1.
InUnitRange(v) ==
    IF Len(v) = 3 THEN v[1] \in {-1, 0, 1} /\ v[3] > 0 /\ 0 <= v[2] /\ v[2] <= v[3]
    ELSE ~FLt(v, R(0 - 1)) /\ ~FLt(R(1), v) /\ IsFinite(v)

\* C17: every value that is not NaN written by a successful correl call at an
\* index >= p-1 lies in [-1, 1], and so does every correlation that is not NaN
\* returned by correl_inc given the sums of the previous window.
C17_CorrelationRange ==
    call.fn = "correl"
        => /\ ret.res = "Ok"
                 => \A i \in (call.par[1] - 1)..(Len(call.ins.input_0) - 1) :
                        \/ is_nan(At(ret.out.output_correl, i))
                        \/ InUnitRange(At(ret.out.output_correl, i))
           /\ (Stepped /\ strm.res = "Ok")
                 => is_nan(strm.val[1]) \/ InUnitRange(strm.val[1])

\* correl_inc has returned a correlation strictly between 0 and 1 in absolute
\* value, equal to the one the batch call wrote for the window that had slid.
C17_Witness ==
    /\ call.fn = "correl"
    /\ strm.res = "Ok"
    /\ strm.i >= call.par[1]
    /\ Len(strm.val[1]) = 3
    /\ 0 < strm.val[1][2]
    /\ strm.val[1][2] < strm.val[1][3]
    /\ strm.val[1] = At(ret.out.output_correl, strm.i)
    /\ InUnitRange(At(ret.out.output_correl, strm.i - 1))

\* C18: no kernel propagates an infinity from a zero denominator; in particular,
\* for finite prices, rocp at an index whose price `period` samples earlier is 0,
\* and rocp_inc given prev = 0, return a sentinel (0 or NaN) and never an
\* infinity.
C18_ZeroPriceGivesSentinel ==
    (call.fn = "rocp" /\ ret.res = "Ok" /\ AllFinite(call.ins.input_price))
        => /\ \A i \in call.par[1]..(Len(call.ins.input_price) - 1) :
                 At(call.ins.input_price, i - call.par[1]) = R(0)
                    => ~IsInf(At(ret.out.output_rocp, i))
           /\ (Stepped /\ At(call.ins.input_price, strm.i - call.par[1]) = R(0))
                 => strm.res = "Ok" /\ ~IsInf(strm.val[1])

\* The current call is wma of period 3 on the input of its documentation example.
WmaDocCall == call.fn = "wma" /\ call.ins.input = WmaDocExample /\ call.par = <<3>>

RECURSIVE WeightedWindow(_, _, _, _)
WeightedWindow(input, p, i, m) ==
    IF m < 0 THEN R(0)
    ELSE FAdd(FMul(At(input, i - m), R(p - m)), WeightedWindow(input, p, i, m - 1))

\* (sum over j = 0 .. p-1 of input[i-j] * (p-j)) / (p * (p+1) / 2)
WmaFormula(input, p, i) == FDiv(WeightedWindow(input, p, i, p - 1), Q(p * (p + 1), 2))

\* The window of the last wma_inc call is input[i], input[i-1], ..., input[i-p+1].
FullWindow ==
    strm.st = [j \in 1..call.par[1] |-> At(call.ins.input, strm.i - (j - 1))]

\* The values wma writes and wma_inc returns on a full window: for finite
\* samples, 2 <= p <= n and output[i] is the formula's value for i in p-1 .. n-1,
\* and wma_inc on the window input[i], ..., input[i-p+1] returns output[i].
WmaAgreement ==
    LET input == call.ins.input
        p == call.par[1]
    IN  /\ 2 <= p /\ p <= Len(input)
        /\ \A i \in (p - 1)..(Len(input) - 1) :
               At(ret.out.output, i) = WmaFormula(input, p, i)
        /\ (Stepped /\ FullWindow)
               => strm.res = "Ok" /\ strm.val = <<At(ret.out.output, strm.i)>>

RateOfChange(price, p, i) == FDiv(FSub(At(price, i), At(price, i - p)), At(price, i - p))

\* What a successful rocp call writes and what rocp_inc returns after it:
\* n > p >= 1, output[i] is the rate of change for i in p .. n-1 and NaN for
\* i < p in every build, and rocp_inc(price[i], price[i-p]) returns output[i].
RocpValues ==
    (call.fn = "rocp" /\ ret.res = "Ok")
        => LET price == call.ins.input_price
               p == call.par[1]
           IN  /\ 1 <= p /\ p < Len(price)
               /\ \A i \in p..(Len(price) - 1) :
                      At(ret.out.output_rocp, i) = RateOfChange(price, p, i)
               /\ \A i \in 0..(p - 1) : is_nan(At(ret.out.output_rocp, i))
               /\ Stepped => /\ strm.res = "Ok"
                             /\ strm.i >= p
                             /\ strm.val = <<At(ret.out.output_rocp, strm.i)>>

\* The current call is rocp::lookback.
RocpLookbackCall == call.fn = "lookback" /\ call.ins.kernel = "rocp"

\* C21 (as stated): rocp::lookback(p) is p for p >= 1 and InvalidParameter for
\* p = 0; a successful rocp call writes the rate of change from index p on and NaN
\* below it, and rocp_inc returns the value the batch call wrote.
C21_RocpAsStated ==
    /\ RocpLookbackCall
          => IF call.par[1] >= 1 THEN ret.res = "Ok" /\ ret.out = <<call.par[1]>>
             ELSE ret.res = "InvalidParameter"
    /\ RocpValues

\* C21 (amended): the same, with InvalidParameter for p = 0 only in a build
\* with the check feature; without it rocp::lookback(0) is Ok(0).
C21_Rocp ==
    /\ RocpLookbackCall
          => IF call.par[1] >= 1 THEN ret.res = "Ok" /\ ret.out = <<call.par[1]>>
             ELSE IF cfg.check THEN ret.res = "InvalidParameter"
             ELSE ret.res = "Ok" /\ ret.out = <<0>>
    /\ RocpValues

\* rocp_inc has returned a finite rate of change other than 0 for period >= 2,
\* below which the batch call wrote NaN over the caller's values.
C21_Witness ==
    /\ call.fn = "rocp"
    /\ call.par[1] >= 2
    /\ strm.res = "Ok"
    /\ IsFinite(strm.val[1])
    /\ strm.val[1] # R(0)
    /\ strm.val[1] = RateOfChange(call.ins.input_price, call.par[1], strm.i)
    /\ ~cfg.allow_nan
    /\ is_nan(At(ret.out.output_rocp, 1))

\* The element-wise series high[k] - low[k] of the current adr call.
Ranges ==
    [j \in 1..Len(call.ins.input_high) |->
        FSub(call.ins.input_high[j], call.ins.input_low[j])]

\* adr's own validations accept the current call, so that it reaches sma.
AdrReachesSma ==
    LET len == Len(call.ins.input_high)
    IN  /\ adr_lookback(call.par[1]).res = "Ok"
        /\ cfg.check => /\ len > adr_lookback(call.par[1]).v
                        /\ len = Len(call.ins.input_low)
                        /\ len = Len(pre.output_adr)
        /\ cfg.check_nan => ~AnyNaN(call.ins.input_high) /\ ~AnyNaN(call.ins.input_low)

\* C22: a successful adr call writes at every index i >= p-1 the value sma
\* writes for the series high[k] - low[k] (for finite samples, the mean of the last
\* p ranges); adr_inc fed output_adr[p-1] and then its own results, with old = the
\* sample p positions earlier, returns output_adr[i] for every i >= p; and a call
\* that passes adr's own validations returns what sma returns for the ranges,
\* an error of sma included.
C22_AdrIsSmaOfRanges ==
    call.fn = "adr"
        => LET p == call.par[1]
               finite == AllFinite(call.ins.input_high) /\ AllFinite(call.ins.input_low)
           IN  /\ AdrReachesSma
                     => LET s == sma(Ranges, p, pre.output_adr)
                        IN  /\ ret.res = s.res
                            /\ ret.out.output_adr = s.out.output_sma
               /\ (ret.res = "Ok" /\ finite)
                     => \A i \in (p - 1)..(Len(Ranges) - 1) :
                            At(ret.out.output_adr, i) = WindowMean(Ranges, p, i)
               /\ (Stepped /\ finite)
                     => /\ strm.res = "Ok"
                        /\ strm.i >= p
                        /\ strm.val = <<At(ret.out.output_adr, strm.i)>>

\* adr_inc has returned the second value after the seed, each different from the
\* one before.
C22_Witness ==
    /\ call.fn = "adr"
    /\ strm.res = "Ok"
    /\ strm.i = call.par[1] + 1
    /\ AllFinite(call.ins.input_high)
    /\ strm.val[1] = WindowMean(Ranges, call.par[1], strm.i)
    /\ strm.val[1] # At(ret.out.output_adr, strm.i - 1)
    /\ At(ret.out.output_adr, strm.i - 1) # At(ret.out.output_adr, strm.i - 2)

\* The input candle i and the output candle i of the current ha call, as
\* <<open, high, low, close>>.
InCandle(i) == [c \in 1..4 |-> At(call.ins[OhlcNames[c]], i)]

HaCandle(i) == [c \in 1..4 |-> At(ret.out[HaOutputs[c]], i)]

\* (O + H + L + C) / 4
Mean4(k) == FDiv(FAdd(FAdd(FAdd(k[1], k[2]), k[3]), k[4]), R(4))

\* x is the largest / the smallest of the finite numbers in S.
IsMax(x, S) == x \in S /\ \A y \in S : ~FLt(x, y)

IsMin(x, S) == x \in S /\ \A y \in S : ~FLt(y, x)

\* C23: a successful ha call writes all four outputs at every index 0..len-1;
\* at index 0, HA_Close = (O+H+L+C)/4, HA_Open = (O+C)/2, HA_High = H, HA_Low = L;
\* at every i >= 1 the outputs are what ha_inc returns for candle i and the
\* outputs open and close at i-1: for finite candles, HA_Open = (previous HA_Open
\* + previous HA_Close)/2, HA_Close = (O+H+L+C)/4, HA_High = max(H, HA_Open,
\* HA_Close) and HA_Low = min(L, HA_Open, HA_Close).
C23_HaSeedAndRecurrence ==
    (call.fn = "ha" /\ ret.res = "Ok")
        => LET len == Len(call.ins.input_open)
           IN  /\ len >= 1
               /\ ret.wr = RowIdx(HaOutputs, 0, len)
               /\ HaCandle(0)[4] = Mean4(InCandle(0))
               /\ HaCandle(0)[1] = FDiv(FAdd(InCandle(0)[1], InCandle(0)[4]), R(2))
               /\ HaCandle(0)[2] = InCandle(0)[2]
               /\ HaCandle(0)[3] = InCandle(0)[3]
               /\ \A i \in 1..(len - 1) :
                     LET k == InCandle(i)
                         prev == HaCandle(i - 1)
                         now == HaCandle(i)
                     IN  /\ ha_inc(k[1], k[2], k[3], k[4], prev[1], prev[4])
                                = Res("Ok", <<now[1], now[2], now[3], now[4]>>)
                         /\ (\A j \in 0..i : \A c \in 1..4 : IsFinite(InCandle(j)[c]))
                               => /\ now[1] = FDiv(FAdd(prev[1], prev[4]), R(2))
                                  /\ now[4] = Mean4(k)
                                  /\ IsMax(now[2], {k[2], now[1], now[4]})
                                  /\ IsMin(now[3], {k[3], now[1], now[4]})

\* ha has returned three finite candles, the second with a high above the input's
\* high and the third opening elsewhere than the second.
C23_Witness ==
    /\ call.fn = "ha"
    /\ ret.res = "Ok"
    /\ Len(call.ins.input_open) >= 3
    /\ \A j \in 0..2 : \A c \in 1..4 : IsFinite(InCandle(j)[c])
    /\ FLt(InCandle(1)[2], HaCandle(1)[2])
    /\ HaCandle(2)[1] # HaCandle(1)[1]
    /\ HaCandle(2)[1] = FDiv(FAdd(HaCandle(1)[1], HaCandle(1)[4]), R(2))

FirstViolation ==
    IF ParamOutsideDomain THEN "InvalidParameter"
    ELSE IF Len(FirstInput) = 0 THEN "InvalidData"
    ELSE IF Len(FirstInput) <= ResolvedLookback THEN "InsufficientData"
    ELSE IF ~SameLengths THEN "LengthMismatch"
    ELSE IF cfg.check_nan /\ \E name \in DOMAIN call.ins : AnyNaN(call.ins[name])
    THEN "NaNDetected"
    ELSE "Ok"

\* C25: with structural checks enabled, sma, rocp, correl and wma return the
\* first violated condition in one and the same order: InvalidParameter, then
\* InvalidData, then InsufficientData, then LengthMismatch, then NaNDetected; so a
\* call whose input is too short and whose output length differs returns
\* InsufficientData from each of them, and a LengthMismatch is returned with no
\* input element read.
C25_UniformPrecedence ==
    (cfg.check /\ call.fn \in {"sma", "rocp", "correl", "wma"})
        => /\ ret.res = FirstViolation
           /\ ret.res = "LengthMismatch" => ret.rd = {}

\* C26: with structural checks enabled, adosc_inc returns InvalidParameter for
\* exactly the (fast, slow) pairs adosc::lookback rejects (fast < 2, slow < 2 or
\* fast >= slow), and sma_inc, adr_inc, correl_inc and wma_inc return
\* InvalidParameter for every period < 2.
C26_IncParameterDomain ==
    (cfg.check /\ call.fn \in IncKernels)
        => IF call.fn = "adosc_inc"
           THEN ret.res = "InvalidParameter"
                    <=> adosc_lookback(call.par[1], call.par[2]).res = "InvalidParameter"
           ELSE call.par[1] < 2 => ret.res = "InvalidParameter"


\* The sums of x, y, x^2, y^2 and x*y over the window ending at i, each computed
\* afresh from the inputs of the call.
FreshSums(i) ==
    LET x == call.ins.input_0
        y == call.ins.input_1
        lo == i - call.par[1] + 1
        sq(s) == [j \in 1..Len(s) |-> FMul(s[j], s[j])]
        xy == [j \in 1..Len(x) |-> FMul(x[j], y[j])]
    IN  <<SumRange(x, lo, i + 1), SumRange(y, lo, i + 1), SumRange(sq(x), lo, i + 1),
          SumRange(sq(y), lo, i + 1), SumRange(xy, lo, i + 1)>>

\* What C27 says of the outputs of a successful correl call.
SlidingEqualsFresh ==
    LET p == call.par[1]
    IN  /\ \A i \in (p - 1)..(Len(call.ins.input_0) - 1) :
              LET f == FreshSums(i)
              IN  /\ StoredSums(ret.out, i) = f
                  /\ At(ret.out.output_correl, i)
                        = pearson(R(p), f[1], f[2], f[3], f[4], f[5])
        /\ \A i \in 0..(p - 2) : \A k \in 1..6 :
              is_nan(At(ret.out[CorrelOutputs[k]], i))

\* C27 as stated: after every successful correl call the five stored sums at
\* every index i >= p-1 equal the sums of x, y, x^2, y^2 and x*y over the window
\* i-p+1 .. i computed afresh, output_correl[i] is the Pearson formula on those
\* fresh sums, and all six outputs are NaN below p-1.
C27_SlidingEqualsFreshAsStated ==
    (call.fn = "correl" /\ ret.res = "Ok") => SlidingEqualsFresh

\* C27: the same for a successful correl call on series of finite samples.
C27_SlidingEqualsFresh ==
    (call.fn = "correl" /\ ret.res = "Ok"
     /\ AllFinite(call.ins.input_0) /\ AllFinite(call.ins.input_1))
        => SlidingEqualsFresh

\* A successful call on finite series whose window has moved twice, with a
\* correlation that is a number at the last index.
C27_Witness ==
    /\ call.fn = "correl"
    /\ ret.res = "Ok"
    /\ AllFinite(call.ins.input_0) /\ AllFinite(call.ins.input_1)
    /\ Len(call.ins.input_0) >= call.par[1] + 2
    /\ LET n == Len(call.ins.input_0)
       IN  /\ StoredSums(ret.out, n - 1) # StoredSums(ret.out, n - 3)
           /\ StoredSums(ret.out, n - 1) = FreshSums(n - 1)
           /\ ~is_nan(At(ret.out.output_correl, n - 1))


\* The indices of s are 0 .. Len(s)-1.
InBounds(s, k) == 0 <= k /\ k < Len(s)

\* C28: with structural checks enabled every batch kernel either returns an
\* error or reads and writes in bounds only: every input element it reads and
\* every output element it writes has an index k with 0 <= k < the length of
\* that array, so no index is negative and none lies past the end. (The reads
\* and writes of a call that returns an error are in bounds as well.)
C28_IndexSafety ==
    (cfg.check /\ call.fn \in BatchKernels)
        => /\ \A a \in ret.rd : a[1] \in DOMAIN call.ins /\ InBounds(call.ins[a[1]], a[2])
           /\ \A a \in ret.wr : a[1] \in DOMAIN pre /\ InBounds(pre[a[1]], a[2])


\* A checked build's rocp call with the longest period its input allows: it reads
\* the first element (index i - period = 0) and writes the last one.
C28_Witness ==
    /\ cfg.check
    /\ call.fn = "rocp"
    /\ ret.res = "Ok"
    /\ call.par[1] = Len(call.ins.input_price) - 1
    /\ call.par[1] >= 2
    /\ <<"input_price", 0>> \in ret.rd
    /\ <<"output_rocp", Len(pre.output_rocp) - 1>> \in ret.wr


\* a <= b as the comparison of two f64: false when either is NaN.
Le(a, b) == ~is_nan(a) /\ ~is_nan(b) /\ (a = b \/ FLt(a, b))

\* low <= min(open, close) and max(open, close) <= high, for k = <<open, high,
\* low, close>>.
Envelope(k) == Le(k[3], k[1]) /\ Le(k[3], k[4]) /\ Le(k[1], k[2]) /\ Le(k[4], k[2])

\* low <= open <= high and low <= close <= high.
WellFormed(k) == Le(k[3], k[1]) /\ Le(k[1], k[2]) /\ Le(k[3], k[4]) /\ Le(k[4], k[2])

\* What C29 says of the candles of a successful ha call.
HaEnvelope ==
    /\ \A i \in 1..(Len(call.ins.input_open) - 1) : Envelope(HaCandle(i))
    /\ WellFormed(InCandle(0)) => Envelope(HaCandle(0))

\* C29 as stated: for arbitrary inputs without a NaN, every candle ha_inc returns
\* (every candle ha writes at an index i >= 1) has HA_Low <= min(HA_Open,
\* HA_Close) and max(HA_Open, HA_Close) <= HA_High, and so has the candle at
\* index 0 when the first input candle is well formed.
C29_HaEnvelopeAsStated ==
    (call.fn = "ha" /\ ret.res = "Ok"
     /\ \A c \in 1..4 : ~AnyNaN(call.ins[OhlcNames[c]]))
        => HaEnvelope

\* C29: the same for inputs that are all finite.
C29_HaEnvelope ==
    (call.fn = "ha" /\ ret.res = "Ok"
     /\ \A c \in 1..4 : AllFinite(call.ins[OhlcNames[c]]))
        => HaEnvelope

\* A successful call on finite candles where the envelope at index 1 is wider
\* than the input candle (HA_Open lies above the input's high), after a first
\* candle that is not well formed and breaks the envelope at index 0.
C29_Witness ==
    /\ call.fn = "ha"
    /\ ret.res = "Ok"
    /\ Len(call.ins.input_open) >= 2
    /\ \A c \in 1..4 : AllFinite(call.ins[OhlcNames[c]])
    /\ ~WellFormed(InCandle(0))
    /\ ~Envelope(HaCandle(0))
    /\ FLt(InCandle(1)[2], HaCandle(1)[1])
    /\ HaCandle(1)[2] = HaCandle(1)[1]
    /\ Envelope(HaCandle(1))


\* a == b as the comparison of two f64: false when either is NaN.
Same(a, b) == ~is_nan(a) /\ ~is_nan(b) /\ a = b

\* The input of an sma or wma call has at least two samples, all the same.
ConstantInput ==
    /\ call.fn \in {"sma", "wma"}
    /\ Len(call.ins.input) >= 2
    /\ \A j \in 1..Len(call.ins.input) : call.ins.input[j] = call.ins.input[1]

\* What C30 says of a call on a series that is c everywhere and of the
\* incremental steps that follow it.
FixedPoint ==
    LET c == call.ins.input[1]
        out == IF call.fn = "sma" THEN ret.out.output_sma ELSE ret.out.output
    IN  /\ \A i \in (call.par[1] - 1)..(Len(call.ins.input) - 1) : Same(At(out, i), c)
        /\ (Stepped /\ strm.res = "Ok"
            /\ (call.fn = "wma" => Len(strm.st) = call.par[1]))
              => Same(strm.val[1], c)

\* C30 as stated: for every constant c and 2 <= p <= n, sma and wma on the
\* series that is c everywhere write exactly c at every index >= p-1, and
\* sma_inc(c, c, c, p) and wma_inc on a window of p copies of c return c.
C30_ConstantFixedPointAsStated ==
    (ConstantInput /\ ret.res = "Ok" /\ call.par[1] >= 2) => FixedPoint

\* C30: the same for every finite constant c.
C30_ConstantFixedPoint ==
    (ConstantInput /\ ret.res = "Ok" /\ call.par[1] >= 2
     /\ IsFinite(call.ins.input[1]))
        => FixedPoint

\* wma has written 3.0 over a series of 3.0 with the period 3, and wma_inc has
\* returned 3.0 on a window of three copies of it.
C30_Witness ==
    /\ ConstantInput
    /\ call.fn = "wma"
    /\ call.ins.input[1] = R(3)
    /\ call.par = <<3>>
    /\ ret.res = "Ok"
    /\ At(ret.out.output, 2) = R(3)
    /\ strm.res = "Ok"
    /\ Stepped
    /\ Len(strm.st) = 3
    /\ strm.val = <<R(3)>>

\* sma has written 3.0 over a series of 3.0 whose window has moved, and
\* sma_inc(3.0, 3.0, 3.0, p) has returned 3.0.
C30_WitnessSma ==
    /\ ConstantInput
    /\ call.fn = "sma"
    /\ call.ins.input[1] = R(3)
    /\ call.par = <<2>>
    /\ ret.res = "Ok"
    /\ Len(call.ins.input) = 4
    /\ At(ret.out.output_sma, 3) = R(3)
    /\ strm.res = "Ok"
    /\ Stepped
    /\ strm.val = <<R(3)>>

=============================================================================
